---- MODULE Spec2Model ----
(***************************************************************************)
(* launch-unity: one orchestration pass of orchestrateLaunch (lib.ts) and  *)
(* the components it sequences, run against an external Unity Editor whose *)
(* processes start, take the project lock, exit and crash on their own.    *)
(*                                                                         *)
(* Every step of the pass that touches the outside world (process list,    *)
(* signal, liveness poll, lockfile test, lsof / PowerShell inspection, rm, *)
(* spawn, Unity Hub file) is one action; the editor's own actions          *)
(* interleave between any two of them.                                     *)
(***************************************************************************)
EXTENDS Integers, Sequences, FiniteSets, TLC

\* ------------------------------------------------------------------ bounds
\* Process ids the operating system hands out in one run.
MaxPid == 2
\* How many times the user opens the project in an editor during one pass.
MaxStarts == 1
\* The clock is read in steps of this many milliseconds: a sleep ends at the
\* first step at or after its delay (a timer fires late, never early).
TimerGranularityMs == 2500

\* The longest command line (after the script name) the model reads.
MaxArgs == 3

\* The most entries (directories and links) below a search root.
MaxDirs == 3
\* The largest --max-depth the model searches with.
MaxSearchDepth == 2

\* The longest path spelling (in characters) handed to the path functions.
MaxPathLen == 3

\* ------------------------------------------------------- program constants
KILL_POLL_INTERVAL_MS == 100
KILL_TIMEOUT_MS == 10000
GRACEFUL_QUIT_TIMEOUT_MS == 10000

UNITY_LOCKFILE_NAME == "UnityLockfile"
TEMP_DIRECTORY_NAME == "Temp"

Pids == 1..MaxPid

\* ------------------------------------------------------------------- paths
\* A path is a sequence of one-character strings.
Sep == "/"
BackSep == "\\"

\* String.prototype.toLocaleLowerCase on the letters the model uses.
toLowerChar(c) ==
    CASE c = "P" -> "p"
      [] c = "Q" -> "q"
      [] c = "C:" -> "c:"
      [] OTHER -> c

\* The requested project, and the spellings found on editor command lines:
\* the same directory in another case with a trailing separator, and
\* another project.
ProjectP == <<"/", "p">>
SpellingOfP == <<"/", "P", "/">>
ProjectQ == <<"/", "q">>
ProcPaths == {SpellingOfP, ProjectQ}

RECURSIVE removeTrailingSeparators(_)
removeTrailingSeparators(target) ==
    IF Len(target) > 1 /\ (target[Len(target)] = Sep \/ target[Len(target)] = BackSep)
    THEN removeTrailingSeparators(SubSeq(target, 1, Len(target) - 1))
    ELSE target

\* Repeated separators collapse.
RECURSIVE collapseSeparators(_)
collapseSeparators(s) ==
    IF Len(s) < 2 THEN s
    ELSE IF s[1] = Sep /\ s[2] = Sep THEN collapseSeparators(Tail(s))
    ELSE <<s[1]>> \o collapseSeparators(Tail(s))

\* process.cwd(): a directory "w" under the root (of drive C: on Windows).
\* A drive prefix is one character of the model, "C:" or "c:".
CwdPosix == <<Sep, "w">>
isDrive(c) == c \in {"C:", "c:"}

\* node:path posix.resolve() on a path without "." or ".." segments: a
\* path that does not begin with "/" is taken from the working directory,
\* repeated "/" collapse and a trailing one is dropped, except for the root.
\* "\" is an ordinary character there.
resolvePosix(target) ==
    LET absolute == IF target # <<>> /\ target[1] = Sep
                    THEN target ELSE CwdPosix \o <<Sep>> \o target
        c == collapseSeparators(absolute)
    IN  IF Len(c) > 1 /\ c[Len(c)] = Sep THEN SubSeq(c, 1, Len(c) - 1) ELSE c

\* node:path win32.resolve() on such a path: "/" and "\" both separate, the
\* result is spelled with "\" under the drive of the path (spelled as
\* given) or else of the working directory, and the root keeps its
\* separator ("C:\").
resolveWin32(target) ==
    LET hasDrive == target # <<>> /\ isDrive(target[1])
        device == IF hasDrive THEN <<target[1]>> ELSE <<"C:">>
        rest == IF hasDrive THEN Tail(target) ELSE target
        slashed == [i \in 1..Len(rest) |-> IF rest[i] = BackSep THEN Sep ELSE rest[i]]
        absolute == IF slashed # <<>> /\ slashed[1] = Sep
                    THEN slashed ELSE CwdPosix \o <<Sep>> \o slashed
        c == collapseSeparators(absolute)
        t == IF Len(c) > 1 /\ c[Len(c)] = Sep THEN SubSeq(c, 1, Len(c) - 1) ELSE c
    IN  device \o [i \in 1..Len(t) |-> IF t[i] = Sep THEN BackSep ELSE t[i]]

\* ------------------------------------------------------ the outside world
VARIABLES
    platform,        \* process.platform
    procs,           \* pid -> the command line of the process, or NoProcess
    lockfileExists,  \* <project>/Temp/UnityLockfile exists
    tempExists,      \* <project>/Temp exists
    lockHolder,      \* pid that has the lockfile open, 0 when nobody has
    manifest,        \* <project>/ProjectSettings/ProjectVersion.txt
    starts,          \* editors the user started since the pass began
    foreign          \* the editors run under another account: signalling them is EPERM

\* -------------------------------------------------------- the command line
VARIABLES
    argv,            \* process.argv.slice(2)
    platformOption,  \* options.platform, "" when not given
    hubCliArgs       \* the launch options Unity Hub keeps for the project

\* ------------------------------------------------- one orchestration pass
VARIABLES
    options,             \* OrchestrateOptions: the flags
    pc,                  \* where the pass is
    resolvedProjectPath, \* local of orchestrateLaunch
    unityVersion,        \* local of orchestrateLaunch
    runningProcess,      \* what findRunningUnityProcess returned
    waitFor,             \* which waitForProcessExit call is running
    elapsed,             \* Date.now() - start of that call
    result,              \* OrchestrateResult, or the error thrown
    events               \* calls made to the outside, in order

\* ------------------------------------- what was true when the pass looked
VARIABLES
    termOutcome,     \* outcome of killRunningUnity / quitRunningUnity
    matchAtQuery,    \* editors of the project alive when the list was taken
    listOk,          \* the process list query succeeded
    lockAtInspect,   \* "absent", "stale" or "held" when the lock was looked at
    inspectRan,      \* lsof / PowerShell ran when the lock was looked at
    inspectedHeld,   \* what isLockfileHeld answered
    runningAtLaunch, \* an editor of the project was alive when launch() was called
    launchedWith,    \* LaunchResolvedOptions handed to launch()
    spawnArgs,       \* the argument vector launch() built for spawn()
    listedAtQuery,   \* what listUnityProcesses returned to findRunningUnityProcess
    contacted        \* the pids that were sent a signal or a close request, or polled

\* ------------------------------- the project search (findUnityProjectBfs)
VARIABLES
    searchRoot,      \* rootDir, resolved (realpathSync)
    maxDepth,        \* the maxDepth argument
    dirents,         \* the entries below the search root, by path
    symlinks,        \* the entries that are symbolic links (to the search root)
    unreadable,      \* the directories readdirSync fails on
    projectRoots,    \* the directories with ProjectSettings/ProjectVersion.txt
    searchPc,        \* where the search is
    queue,           \* local of findUnityProjectBfs
    visited,         \* local of findUnityProjectBfs
    bfsResult,       \* what findUnityProjectBfs returned
    tested,          \* the queue entries taken from the queue, in order
    enqueued         \* the queue entries pushed, in order

\* ------------------------------------------ the path functions on their own
VARIABLES
    pathLeft,        \* a path spelling
    pathRight,       \* another one
    pathPc,          \* where the comparison is
    equalLR,         \* pathsEqual(pathLeft, pathRight)
    equalRL,         \* pathsEqual(pathRight, pathLeft)
    equalLL,         \* pathsEqual(pathLeft, pathLeft)
    canonOnce,       \* toComparablePath(normalizePath(pathLeft))
    canonTwice       \* the same applied to canonOnce

pathVars == <<pathLeft, pathRight, pathPc, equalLR, equalRL, equalLL, canonOnce,
              canonTwice>>

\* --------------------------------------- the process listing on its own
VARIABLES
    listPc,          \* where the listing is
    listQueryOk,     \* ps / Get-CimInstance succeeded
    listed           \* what listUnityProcesses returned

registryVars == <<listPc, listQueryOk, listed>>

\* ------------------------------------------------ the quit-unity command
VARIABLES
    quitForce,       \* QuitOptions.force
    quitTimeoutMs,   \* QuitOptions.timeoutMs
    quitTarget,      \* the process of the pid in EditorInstance.json: "alive" or "gone"
    quitPc,          \* where the command is
    quitElapsed,     \* Date.now() - start of the running waitForExit
    quitCalls,       \* signals sent and directories removed, in order
    exitCode,        \* the exit code of the command, -1 while it runs
    gracefulWaited,  \* how long the graceful wait took, -1 before it ends
    targetAtTimeout  \* the process when the graceful wait ended

quitVars == <<quitForce, quitTimeoutMs, quitTarget, quitPc, quitElapsed, quitCalls,
              exitCode, gracefulWaited, targetAtTimeout>>

\* ------------------------------------------- the prompt-based CLI (cli.ts)
VARIABLES
    promptConsole,   \* "rawTty", "lineConsole" or "none": how the user can be asked
    promptLock,      \* <project>/Temp/UnityLockfile exists
    promptPc,        \* where the command is
    promptAnswer,    \* what the user typed, "" before
    promptCalls,     \* what the command did, in order
    promptExit       \* the exit code of the command, -1 while it runs

promptVars == <<promptConsole, promptLock, promptPc, promptAnswer, promptCalls,
                promptExit>>

\* ------------------------------------ the Unity Hub registry (unityHub.ts)
VARIABLES
    hubFiles,    \* the two registry files: readable or not, and their data
    hubClock,    \* the calls made so far; the clock of "when"
    hubBefore,   \* the registry files before the last call
    hubCall      \* the last call: its arguments and what it did

hubVars == <<hubFiles, hubClock, hubBefore, hubCall>>

searchVars == <<searchRoot, maxDepth, dirents, symlinks, unreadable, projectRoots,
                searchPc, queue, visited, bfsResult, tested, enqueued>>
\* The state of the components that are run on their own.
partVars == <<searchVars, pathVars, registryVars, quitVars, promptVars, hubVars>>

worldVars == <<platform, procs, lockfileExists, tempExists, lockHolder, manifest,
               starts, foreign>>
cliVars == <<argv, platformOption, hubCliArgs>>
passVars == <<cliVars, partVars, options, pc, resolvedProjectPath, unityVersion, runningProcess,
              waitFor, elapsed, result, events>>
seenVars == <<termOutcome, matchAtQuery, listOk, lockAtInspect, inspectRan,
              inspectedHeld, runningAtLaunch, launchedWith, spawnArgs>>
targetVars == <<listedAtQuery, contacted>>
vars == <<worldVars, passVars, seenVars, targetVars>>

\* node:path resolve() is that of the platform.
resolve(target) ==
    IF platform = "win32" THEN resolveWin32(target) ELSE resolvePosix(target)

\* A folding that replaces the separators and keeps the case.
toComparablePath_keepsCase(value) ==
    [i \in 1..Len(value) |-> IF value[i] = BackSep THEN Sep ELSE value[i]]

\* resolvedPath is a const of the source: it is computed once.
normalizePath(target) ==
    CHOOSE trimmed \in {removeTrailingSeparators(resolvedPath) :
                           resolvedPath \in {resolve(target)}} : TRUE

\* replace(/\\/g, "/") and toLocaleLowerCase() on the value, taken once.
toComparablePath(value) ==
    CHOOSE folded \in {[i \in 1..Len(v) |->
                          IF v[i] = BackSep THEN Sep ELSE toLowerChar(v[i])] :
                          v \in {value}} : TRUE

\* A comparison that forgets the case folding.
pathsEqual_caseSensitive(left, right) ==
    normalizePath(left) = normalizePath(right)

pathsEqual(left, right) ==
    toComparablePath(normalizePath(left)) = toComparablePath(normalizePath(right))

Platforms == {"darwin", "win32", "linux"}
Versions == {"2022.3.5f1", "6000.0.23f1"}

\* ------------------------------------------------------- editor processes
\* The executable an editor process of the platform runs.
EditorExecutable(pf) ==
    CASE pf = "darwin" -> "/Applications/Unity/Hub/Editor/Unity.app/Contents/MacOS/Unity"
      [] pf = "win32" -> "C:/Program Files/Unity/Hub/Editor/Unity.exe"
      [] OTHER -> "/opt/Unity/Editor/Unity"

\* UNITY_EXECUTABLE_PATTERN_MAC / _WINDOWS tested against a command line.
UNITY_EXECUTABLE_PATTERN_MAC(exe) == exe = EditorExecutable("darwin")
UNITY_EXECUTABLE_PATTERN_WINDOWS(exe) == exe = EditorExecutable("win32")

NoPath == <<>>
\* No search is running.
NoSearch ==
    /\ searchRoot = NoPath
    /\ maxDepth = 0
    /\ dirents = {}
    /\ symlinks = {}
    /\ unreadable = {}
    /\ projectRoots = {}
    /\ searchPc = "idle"
    /\ queue = <<>>
    /\ visited = {}
    /\ bfsResult = NoPath
    /\ tested = <<>>
    /\ enqueued = <<>>
\* No path is being compared.
NoComparison ==
    /\ pathLeft = NoPath
    /\ pathRight = NoPath
    /\ pathPc = "idle"
    /\ equalLR = FALSE
    /\ equalRL = FALSE
    /\ equalLL = FALSE
    /\ canonOnce = NoPath
    /\ canonTwice = NoPath
\* No listing is asked for.
NoListing ==
    /\ listPc = "idle"
    /\ listQueryOk = FALSE
    /\ listed = <<>>
\* quit-unity is not running.
NoQuitCommand ==
    /\ quitForce = FALSE
    /\ quitTimeoutMs = 0
    /\ quitTarget = "gone"
    /\ quitPc = "idle"
    /\ quitElapsed = 0
    /\ quitCalls = <<>>
    /\ exitCode = -1
    /\ gracefulWaited = -1
    /\ targetAtTimeout = ""
\* The prompt-based CLI is not running.
NoPromptCommand ==
    /\ promptConsole = "none"
    /\ promptLock = FALSE
    /\ promptPc = "idle"
    /\ promptAnswer = ""
    /\ promptCalls = <<>>
    /\ promptExit = -1
\* No registry file, and no call on the registry.
NoHubFile == [readable |-> FALSE, hasData |-> FALSE, data |-> <<>>]
NoHubCall == [op |-> "none", projectPath |-> <<>>, version |-> <<>>, setFavorite |-> FALSE,
              file |-> "none", wrote |-> FALSE, canonical |-> <<>>,
              read |-> <<>>, written |-> <<>>]
NoHubRegistry ==
    /\ hubFiles = [f \in {"projects-v1.json", "projects.json"} |-> NoHubFile]
    /\ hubClock = 0
    /\ hubBefore = hubFiles
    /\ hubCall = NoHubCall
\* The components that are run on their own are not running.
PartsIdle ==
    /\ NoSearch /\ NoComparison /\ NoListing /\ NoQuitCommand /\ NoPromptCommand
    /\ NoHubRegistry
NoProcess == [exe |-> "", projectPath |-> NoPath, args |-> <<>>]

\* The command lines an editor process can have: the interactive editor of
\* the project (spelled differently), a batch-mode editor of the project,
\* and the interactive editor of another project.
InteractiveEditor(pf, path) ==
    [exe |-> EditorExecutable(pf), projectPath |-> path, args |-> <<>>]
Commands(pf) ==
    { InteractiveEditor(pf, SpellingOfP),
      [exe |-> EditorExecutable(pf), projectPath |-> SpellingOfP, args |-> <<"-batchmode">>],
      InteractiveEditor(pf, ProjectQ) }

Alive(p) == procs[p] # NoProcess

\* The process is an editor (of any kind) that has the project open.
EditorOf(p, project) ==
    /\ Alive(p)
    /\ procs[p].projectPath # NoPath
    /\ toComparablePath(normalizePath(procs[p].projectPath))
         = toComparablePath(normalizePath(project))

\* The user opens the project in an editor.
EditorStart(p) ==
    /\ ~Alive(p)
    /\ procs' = [procs EXCEPT ![p] = InteractiveEditor(platform, SpellingOfP)]
    /\ starts' = starts + 1
    /\ UNCHANGED <<platform, lockfileExists, tempExists, lockHolder, manifest, foreign>>
    /\ UNCHANGED <<passVars, seenVars>>
    /\ UNCHANGED targetVars

\* A started editor of the project creates Temp/UnityLockfile and keeps it open.
EditorOpenLock(p) ==
    /\ EditorOf(p, ProjectP)
    /\ lockHolder = 0
    /\ lockHolder' = p
    /\ lockfileExists' = TRUE
    /\ tempExists' = TRUE
    /\ UNCHANGED <<platform, procs, manifest, starts, foreign>>
    /\ UNCHANGED <<passVars, seenVars>>
    /\ UNCHANGED targetVars

\* An editor of the project goes away: it quits and removes its Temp
\* directory, or it dies (crash, SIGKILL) and leaves Temp/UnityLockfile behind.
EditorExit(p, clean) ==
    /\ EditorOf(p, ProjectP)
    /\ procs' = [procs EXCEPT ![p] = NoProcess]
    /\ IF lockHolder = p
       THEN /\ lockHolder' = 0
            /\ IF clean
               THEN lockfileExists' = FALSE /\ tempExists' = FALSE
               ELSE UNCHANGED <<lockfileExists, tempExists>>
       ELSE /\ clean
            /\ UNCHANGED <<lockHolder, lockfileExists, tempExists>>
    /\ UNCHANGED <<platform, manifest, starts, foreign>>
    /\ UNCHANGED <<passVars, seenVars>>
    /\ UNCHANGED targetVars

\* ------------------------------------------------------- ProcessRegistry
\* String.prototype.toLowerCase on the argument words the model uses.
toLowerWord(w) ==
    CASE w = "-batchMode" -> "-batchmode"
      [] w = "AssetImportWorker" -> "assetimportworker"
      [] OTHER -> w

\* A test that looks for the markers as they are spelled in the code.
isUnityAuxiliaryProcess_caseSensitive(command) ==
    \E i \in 1..Len(command.args) :
        command.args[i] \in {"-batchmode", "assetimportworker"}

isUnityAuxiliaryProcess(command) ==
    \E i \in 1..Len(command.args) :
        toLowerWord(command.args[i]) \in {"-batchmode", "assetimportworker"}

\* The value of the -projectPath argument, NoPath when there is none.
extractProjectPath(command) == command.projectPath

\* All orders in which the operating system may list the processes in S.
RECURSIVE Orders(_)
Orders(S) ==
    IF S = {} THEN {<<>>}
    ELSE UNION { { <<p>> \o rest : rest \in Orders(S \ {p}) } : p \in S }

\* The loop body of listUnityProcessesMac / listUnityProcessesWindows: the
\* UnityProcessInfo of the listed processes that pass the three filters.
RECURSIVE parseProcessList(_, _)
parseProcessList(pf, order) ==
    IF order = <<>> THEN <<>>
    ELSE LET command == procs[Head(order)]
             matches == IF pf = "darwin"
                        THEN UNITY_EXECUTABLE_PATTERN_MAC(command.exe)
                        ELSE UNITY_EXECUTABLE_PATTERN_WINDOWS(command.exe)
             keep == /\ matches
                     /\ ~isUnityAuxiliaryProcess(command)
                     /\ extractProjectPath(command) # NoPath
             info == [pid |-> Head(order),
                      projectPath |-> normalizePath(extractProjectPath(command))]
         IN  (IF keep THEN <<info>> ELSE <<>>) \o parseProcessList(pf, Tail(order))

\* A listing that parses whatever output there is after a failed query.
listUnityProcesses_ignoresFailure(pf, order, queryOk) ==
    IF pf \notin {"darwin", "win32"} THEN <<>>
    ELSE parseProcessList(pf, order)

\* listUnityProcesses: ps (macOS) or Get-CimInstance (Windows) listed the
\* processes in `order`; queryOk is FALSE when the query itself failed.
listUnityProcesses(pf, order, queryOk) ==
    IF pf \notin {"darwin", "win32"} THEN <<>>
    ELSE IF ~queryOk THEN <<>>
    ELSE parseProcessList(pf, order)

\* No UnityProcessInfo.
undefined == [pid |-> 0, projectPath |-> <<>>]

\* A search that keeps the last match of the list (findLast).
RECURSIVE findFirst_lastMatch(_, _)
findFirst_lastMatch(processes, normalizedTarget) ==
    IF processes = <<>> THEN undefined
    ELSE IF findFirst_lastMatch(Tail(processes), normalizedTarget) # undefined
         THEN findFirst_lastMatch(Tail(processes), normalizedTarget)
    ELSE IF pathsEqual(Head(processes).projectPath, normalizedTarget) THEN Head(processes)
    ELSE undefined

\* Array.prototype.find over the listed processes.
RECURSIVE findFirst(_, _)
findFirst(processes, normalizedTarget) ==
    IF processes = <<>> THEN undefined
    ELSE IF pathsEqual(Head(processes).projectPath, normalizedTarget) THEN Head(processes)
    ELSE findFirst(Tail(processes), normalizedTarget)

findRunningUnityProcess(pf, order, queryOk, projectPath) ==
    findFirst(listUnityProcesses(pf, order, queryOk), normalizePath(projectPath))

\* ------------------------------------------------------------ the project
\* ProjectSettings/ProjectVersion.txt: absent, or its "key: value" lines.
NoFile == [exists |-> FALSE, lines |-> <<>>]
WithRevision(v) ==
    CASE v = "2022.3.5f1" -> "2022.3.5f1 (9674261d40ee)"
      [] OTHER -> "6000.0.23f1 (1c4764c07fb4)"
Manifest(v) ==
    [exists |-> TRUE,
     lines |-> << [key |-> "m_EditorVersion", value |-> v],
                  [key |-> "m_EditorVersionWithRevision", value |-> WithRevision(v)] >>]
\* A manifest whose m_EditorVersion line has no value.
ManifestWithoutValue(v) ==
    [exists |-> TRUE,
     lines |-> << [key |-> "m_EditorVersion", value |-> ""],
                  [key |-> "m_EditorVersionWithRevision", value |-> WithRevision(v)] >>]
Manifests ==
    {NoFile, [exists |-> TRUE, lines |-> <<>>],
     [exists |-> TRUE, lines |-> << [key |-> "m_EditorVersion", value |-> ""] >>],
     ManifestWithoutValue("2022.3.5f1")}
        \cup {Manifest(v) : v \in Versions}

\* The text of a line up to its first white space: the key and its colon.
FirstToken(line) ==
    CASE line.key = "m_EditorVersion" -> "m_EditorVersion:"
      [] OTHER -> "m_EditorVersionWithRevision:"

\* A pattern that lost its colon: the last line starting with the key wins.
RECURSIVE matchEditorVersion_anyKey(_)
matchEditorVersion_anyKey(lines) ==
    IF lines = <<>> THEN ""
    ELSE IF matchEditorVersion_anyKey(Tail(lines)) # ""
         THEN matchEditorVersion_anyKey(Tail(lines))
         ELSE Head(lines).value

\* The first capture of /m_EditorVersion:\s*([^\s\n]+)/, "" when none.
\* \s* runs over the end of the line, so after a key without value the
\* capture is the first token of the text that follows.
RECURSIVE matchEditorVersion(_)
matchEditorVersion(lines) ==
    IF lines = <<>> THEN ""
    ELSE IF Head(lines).key = "m_EditorVersion" /\ Head(lines).value # ""
         THEN Head(lines).value
    ELSE IF Head(lines).key = "m_EditorVersion" /\ Tail(lines) # <<>>
         THEN FirstToken(Head(Tail(lines)))
    ELSE matchEditorVersion(Tail(lines))

\* getUnityVersion: the version, or the error it throws.
getUnityVersion(file) ==
    IF ~file.exists THEN [error |-> "ProjectVersion.txt not found", version |-> ""]
    ELSE IF matchEditorVersion(file.lines) = ""
         THEN [error |-> "Could not extract Unity version", version |-> ""]
         ELSE [error |-> "", version |-> matchEditorVersion(file.lines)]

\* ------------------------------------------------------------ the results
NoResult ==
    [action |-> "", projectPath |-> NoPath, pid |-> 0, unityVersion |-> "", error |-> ""]
Thrown(message) == [NoResult EXCEPT !.action = "error", !.error = message]

\* A result that forgets the restart.
Launched_always(path, version, isRestart) ==
    [NoResult EXCEPT !.action = "launched",
                     !.projectPath = path, !.unityVersion = version]

\* The OrchestrateResult variants.
Launched(path, version, isRestart) ==
    [NoResult EXCEPT !.action = IF isRestart THEN "killed-and-launched" ELSE "launched",
                     !.projectPath = path, !.unityVersion = version]
Focused(path, pid) ==
    [NoResult EXCEPT !.action = "focused", !.projectPath = path, !.pid = pid]
HubUpdated(path, version) ==
    [NoResult EXCEPT !.action = "hub-updated", !.projectPath = path, !.unityVersion = version]
\* What orchestrateLaunch returns after quitRunningUnity returned with `outcome`.
QuitResult(path, outcome) ==
    [NoResult EXCEPT !.action = "quit", !.projectPath = path]

\* The flags of OrchestrateOptions; options.projectPath, read once, is drawn
\* where it is read.
OptionSets ==
    [restart : BOOLEAN, quit : BOOLEAN,
     addUnityHub : BOOLEAN, favoriteUnityHub : BOOLEAN]

\* ---------------------------------------------------------------- the pass
\* orchestrateLaunch has not run yet.
StartOfPass ==
    /\ pc = "begin"
    /\ resolvedProjectPath = NoPath
    /\ unityVersion = ""
    /\ runningProcess = undefined
    /\ waitFor = ""
    /\ elapsed = 0
    /\ result = NoResult
    /\ events = <<>>
    /\ termOutcome = ""
    /\ matchAtQuery = {}
    /\ listOk = FALSE
    /\ lockAtInspect = ""
    /\ inspectRan = FALSE
    /\ inspectedHeld = FALSE
    /\ runningAtLaunch = FALSE
    /\ launchedWith = [projectPath |-> NoPath, unityVersion |-> ""]
    /\ spawnArgs = <<>>
    /\ listedAtQuery = <<>>
    /\ contacted = {}

\* The pass begins with any flags, in any state of the project and its
\* editors; the command line carries nothing for the editor.
\* A pass begins; `owners` tells whether the editors that run are the
\* user's own (FALSE) or another account's (TRUE).
InitAmong(owners) ==
    /\ platform \in Platforms
    /\ foreign \in owners
    /\ procs \in [Pids -> Commands(platform) \cup {NoProcess}]
    /\ lockHolder \in {0} \cup {p \in Pids : EditorOf(p, ProjectP)}
    /\ lockfileExists \in (IF lockHolder # 0 THEN {TRUE} ELSE BOOLEAN)
    /\ tempExists \in (IF lockfileExists THEN {TRUE} ELSE BOOLEAN)
    /\ manifest \in Manifests
    /\ starts = 0
    /\ options \in OptionSets
    /\ argv = <<>>
    /\ platformOption = ""
    /\ hubCliArgs = <<>>
    /\ StartOfPass
    /\ PartsIdle

\* The editors are the user's own.
Init == InitAmong({FALSE})


\* The pass ends: orchestrateLaunch returns `r` or throws it.
Finish(r) ==
    /\ pc' = "done"
    /\ result' = r

\* A restart that goes to the lock check without calling killRunningUnity.
Dispatch_restartSkipsKill(opts) ==
    IF opts.addUnityHub \/ opts.favoriteUnityHub THEN [pc |-> "hubEnsure", enter |-> <<>>]
    ELSE IF opts.quit THEN [pc |-> "find", enter |-> <<"quitRunningUnity">>]
    ELSE IF opts.restart THEN [pc |-> "lockExists", enter |-> <<>>]
    ELSE [pc |-> "find", enter |-> <<>>]

\* An orchestrateLaunch that looks at quit and restart before the Hub flags.
Dispatch_hubFlagsLast(opts) ==
    IF opts.quit THEN [pc |-> "find", enter |-> <<"quitRunningUnity">>]
    ELSE IF opts.restart THEN [pc |-> "find", enter |-> <<"killRunningUnity">>]
    ELSE IF opts.addUnityHub \/ opts.favoriteUnityHub THEN [pc |-> "hubEnsure", enter |-> <<>>]
    ELSE [pc |-> "find", enter |-> <<>>]

\* Where orchestrateLaunch goes once the project is resolved and its version
\* read (lines 952-971), and the function it enters on the way.
Dispatch(opts) ==
    IF opts.addUnityHub \/ opts.favoriteUnityHub THEN [pc |-> "hubEnsure", enter |-> <<>>]
    ELSE IF opts.quit THEN [pc |-> "find", enter |-> <<"quitRunningUnity">>]
    ELSE IF opts.restart THEN [pc |-> "find", enter |-> <<"killRunningUnity">>]
    ELSE [pc |-> "find", enter |-> <<>>]

\* A validation that looks at the option conflict after the project.
firstFailure_optionsLast(opts, resolved, dirExists, version) ==
    IF resolved = NoPath THEN "Unity project not found"
    ELSE IF ~dirExists THEN "Project directory not found"
    ELSE IF version.error # "" THEN version.error
    ELSE IF opts.quit /\ opts.restart
        THEN "--quit and --restart cannot be used together."
    ELSE ""

\* The message of the first throw of orchestrateLaunch lines 930-950, ""
\* when none throws: the option conflict, the search, the directory, the
\* manifest.
firstFailure(opts, resolved, dirExists, version) ==
    IF opts.quit /\ opts.restart
        THEN "--quit and --restart cannot be used together."
    ELSE IF resolved = NoPath THEN "Unity project not found"
    ELSE IF ~dirExists THEN "Project directory not found"
    ELSE version.error

\* orchestrateLaunch up to its first await: the option check, the project
\* path (given, or searched for), the directory and the version manifest.
Begin ==
    /\ pc = "begin"
    /\ \E projectPath \in {NoPath, ProjectP}, found \in {NoPath, ProjectP},
          dirExists \in BOOLEAN :
          LET resolved == IF projectPath # NoPath THEN projectPath ELSE found
              version == getUnityVersion(manifest)
              failure == firstFailure(options, resolved, dirExists, version)
          IN  IF failure # ""
              THEN /\ Finish(Thrown(failure))
                   /\ UNCHANGED <<resolvedProjectPath, unityVersion, events>>
              ELSE /\ resolvedProjectPath' = resolved
                   /\ unityVersion' = version.version
                   /\ pc' = Dispatch(options).pc
                   /\ events' = events \o Dispatch(options).enter
                   /\ UNCHANGED result
    /\ UNCHANGED <<cliVars, partVars, options, runningProcess, waitFor, elapsed>>
    /\ UNCHANGED <<worldVars, seenVars>>
    /\ UNCHANGED targetVars

Supported(pf) == pf \in {"darwin", "win32"}

\* The process is an editor in batch mode: no editor window, not listed.
BatchMode(p) == \E i \in 1..Len(procs[p].args) : procs[p].args[i] = "-batchmode"

\* A plain launch that goes on to the lock check although an editor was found.
AfterFind_ignoreRunning(opts, found, path) ==
    IF opts.quit
    THEN IF found = undefined
         THEN [pc |-> "done", outcome |-> "NotFound", leave |-> <<"quitRunningUnity.return">>,
               result |-> QuitResult(path, "NotFound")]
         ELSE [pc |-> "gracefulQuit", outcome |-> "", leave |-> <<>>, result |-> NoResult]
    ELSE IF opts.restart
    THEN IF found = undefined
         THEN [pc |-> "lockExists", outcome |-> "NotFound",
               leave |-> <<"killRunningUnity.return">>, result |-> NoResult]
         ELSE [pc |-> "kill", outcome |-> "", leave |-> <<>>, result |-> NoResult]
    ELSE [pc |-> "lockExists", outcome |-> "", leave |-> <<>>, result |-> NoResult]

\* A quit that, finding nothing to quit, goes on as a launch would.
AfterFind_quitFallsThrough(opts, found, path) ==
    IF opts.quit
    THEN IF found = undefined
         THEN [pc |-> "lockExists", outcome |-> "NotFound",
               leave |-> <<"quitRunningUnity.return">>, result |-> NoResult]
         ELSE [pc |-> "gracefulQuit", outcome |-> "", leave |-> <<>>, result |-> NoResult]
    ELSE IF opts.restart
    THEN IF found = undefined
         THEN [pc |-> "lockExists", outcome |-> "NotFound",
               leave |-> <<"killRunningUnity.return">>, result |-> NoResult]
         ELSE [pc |-> "kill", outcome |-> "", leave |-> <<>>, result |-> NoResult]
    ELSE IF found = undefined
         THEN [pc |-> "lockExists", outcome |-> "", leave |-> <<>>, result |-> NoResult]
         ELSE [pc |-> "focus", outcome |-> "", leave |-> <<>>, result |-> NoResult]

\* What follows findRunningUnityProcess in its three callers: quitRunningUnity
\* (lines 717-726), killRunningUnity (656-665), orchestrateLaunch (971-979).
AfterFind(opts, found, path) ==
    IF opts.quit
    THEN IF found = undefined
         THEN [pc |-> "done", outcome |-> "NotFound", leave |-> <<"quitRunningUnity.return">>,
               result |-> QuitResult(path, "NotFound")]
         ELSE [pc |-> "gracefulQuit", outcome |-> "", leave |-> <<>>, result |-> NoResult]
    ELSE IF opts.restart
    THEN IF found = undefined
         THEN [pc |-> "lockExists", outcome |-> "NotFound",
               leave |-> <<"killRunningUnity.return">>, result |-> NoResult]
         ELSE [pc |-> "kill", outcome |-> "", leave |-> <<>>, result |-> NoResult]
    ELSE IF found = undefined
         THEN [pc |-> "lockExists", outcome |-> "", leave |-> <<>>, result |-> NoResult]
         ELSE [pc |-> "focus", outcome |-> "", leave |-> <<>>, result |-> NoResult]

\* findRunningUnityProcess: the process list is taken and searched.
FindRunning ==
    /\ pc = "find"
    /\ \E order \in Orders({p \in Pids : Alive(p)}), queryOk \in BOOLEAN :
          LET found == findRunningUnityProcess(platform, order, queryOk, resolvedProjectPath)
              next == AfterFind(options, found, resolvedProjectPath)
          IN  /\ runningProcess' = found
              /\ listedAtQuery' = listUnityProcesses(platform, order, queryOk)
              /\ events' = events
                    \o (IF Supported(platform) THEN <<"listProcesses">> ELSE <<>>)
                    \o next.leave
              /\ listOk' = (Supported(platform) /\ queryOk)
              /\ matchAtQuery' = {p \in Pids : EditorOf(p, resolvedProjectPath) /\ ~BatchMode(p)}
              /\ termOutcome' = next.outcome
              /\ IF next.pc = "done"
                 THEN Finish(next.result)
                 ELSE pc' = next.pc /\ UNCHANGED result
    /\ UNCHANGED <<cliVars, partVars, options, resolvedProjectPath, unityVersion, waitFor, elapsed>>
    /\ UNCHANGED <<lockAtInspect, inspectRan, inspectedHeld, runningAtLaunch, launchedWith, spawnArgs>>
    /\ UNCHANGED worldVars
    /\ UNCHANGED contacted

\* A focusUnityProcess that lets the failure of osascript / PowerShell out.
AfterFocus_uncaught(focused, path, pid) ==
    IF focused THEN Focused(path, pid) ELSE Thrown("Failed to bring Unity to front")

\* focusUnityProcessMac / focusUnityProcessWindows: the catch around the
\* tool, then orchestrateLaunch line 977.
AfterFocus(focused, path, pid) == Focused(path, pid)

\* focusUnityProcess, then orchestrateLaunch returns "focused"; a failure of
\* osascript / PowerShell is logged and changes nothing.
Focus ==
    /\ pc = "focus"
    /\ \E focused \in BOOLEAN :
          /\ events' = events
                \o (IF Supported(platform)
                    THEN <<"focus">> \o (IF focused THEN <<>> ELSE <<"focus.failed">>)
                    ELSE <<>>)
          /\ Finish(AfterFocus(focused, resolvedProjectPath, runningProcess.pid))
    /\ UNCHANGED <<cliVars, partVars, options, resolvedProjectPath, unityVersion, runningProcess, waitFor, elapsed>>
    /\ UNCHANGED <<worldVars, seenVars>>
    /\ UNCHANGED targetVars

\* killProcess(pid), from killRunningUnity or as the escalation of
\* quitRunningUnity; the wait that follows starts its clock.
KillProcess ==
    /\ pc \in {"kill", "forceKill"}
    /\ events' = Append(events, "SIGKILL")
                     \o (IF Alive(runningProcess.pid) /\ foreign
                         THEN <<"SIGKILL.failed">> ELSE <<>>)
    /\ waitFor' = (IF pc = "kill" THEN "kill" ELSE "afterKill")
    /\ elapsed' = 0
    /\ pc' = "wait"
    /\ UNCHANGED <<cliVars, partVars, options, resolvedProjectPath, unityVersion, runningProcess, result>>
    /\ UNCHANGED <<worldVars, seenVars>>
    /\ contacted' = contacted \cup {runningProcess.pid}
    /\ UNCHANGED listedAtQuery

\* sendGracefulQuit(pid): Cmd+Q through osascript, or CloseMainWindow(); a
\* failure of the tool is caught and ignored.
SendGracefulQuit ==
    /\ pc = "gracefulQuit"
    /\ \E sent \in BOOLEAN :
          events' = events
              \o (IF Supported(platform)
                  THEN <<"gracefulQuit">> \o (IF sent THEN <<>> ELSE <<"gracefulQuit.failed">>)
                  ELSE <<>>)
    /\ waitFor' = "graceful"
    /\ elapsed' = 0
    /\ pc' = "wait"
    /\ UNCHANGED <<cliVars, partVars, options, resolvedProjectPath, unityVersion, runningProcess, result>>
    /\ UNCHANGED <<worldVars, seenVars>>
    /\ contacted' = contacted \cup {runningProcess.pid}
    /\ UNCHANGED listedAtQuery

\* An isProcessAlive that takes EPERM for a sign of life.
isProcessAlive_epermIsAlive(pid) == Alive(pid)

\* isProcessAlive(pid): process.kill(pid, 0) does not throw. It throws ESRCH
\* when there is no such process and EPERM when the process is another
\* account's.
isProcessAlive(pid) == Alive(pid) /\ ~foreign

\* A wait after the escalation that is longer than the graceful one.
TimeoutOf_patientAfterKill(call) ==
    IF call = "afterKill" THEN GRACEFUL_QUIT_TIMEOUT_MS + KILL_TIMEOUT_MS
    ELSE IF call = "graceful" THEN GRACEFUL_QUIT_TIMEOUT_MS ELSE KILL_TIMEOUT_MS

\* A graceful wait that does not wait.
TimeoutOf_impatient(call) ==
    IF call = "graceful" THEN 0 ELSE KILL_TIMEOUT_MS

TimeoutOf(call) ==
    IF call = "graceful" THEN GRACEFUL_QUIT_TIMEOUT_MS ELSE KILL_TIMEOUT_MS

\* How long setTimeout(resolve, delayMs) sleeps on the model's clock.
SleepMs(delayMs) ==
    ((delayMs + TimerGranularityMs - 1) \div TimerGranularityMs) * TimerGranularityMs

\* A waitForProcessExit that forgot its clock: it polls until the process is gone.
waitForProcessExit_noTimeout(alive, sofar, timeoutMs) ==
    IF ~alive THEN [returned |-> TRUE, value |-> TRUE, elapsed |-> sofar]
    ELSE [returned |-> FALSE, value |-> FALSE, elapsed |-> sofar]

\* One turn of the loop of waitForProcessExit: the clock test, the liveness
\* poll, the sleep. `returned` tells whether the call returned, and what.
waitForProcessExit(alive, sofar, timeoutMs) ==
    IF ~(sofar < timeoutMs) THEN [returned |-> TRUE, value |-> FALSE, elapsed |-> sofar]
    ELSE IF ~alive THEN [returned |-> TRUE, value |-> TRUE, elapsed |-> sofar]
    ELSE [returned |-> FALSE, value |-> FALSE,
          elapsed |-> sofar + SleepMs(KILL_POLL_INTERVAL_MS)]

\* A killRunningUnity that only warns when the process survives.
AfterWait_warnOnly(call, exited, path) ==
    CASE call = "kill" ->
            IF exited
            THEN [pc |-> "lockExists", outcome |-> "ForceKilled",
                  leave |-> <<"killRunningUnity.return">>, result |-> NoResult]
            ELSE [pc |-> "lockExists", outcome |-> "Failed",
                  leave |-> <<"killRunningUnity.return">>, result |-> NoResult]
      [] call = "graceful" ->
            IF exited
            THEN [pc |-> "done", outcome |-> "GracefulExit",
                  leave |-> <<"quitRunningUnity.return">>,
                  result |-> QuitResult(path, "GracefulExit")]
            ELSE [pc |-> "forceKill", outcome |-> "", leave |-> <<>>, result |-> NoResult]
      [] OTHER ->
            IF exited
            THEN [pc |-> "done", outcome |-> "ForceKilled",
                  leave |-> <<"quitRunningUnity.return">>,
                  result |-> QuitResult(path, "ForceKilled")]
            ELSE [pc |-> "done", outcome |-> "Failed", leave |-> <<>>,
                  result |-> Thrown("Failed to kill Unity")]

\* What follows waitForProcessExit in killRunningUnity (lines 667-673) and
\* in quitRunningUnity (729-743, then orchestrateLaunch 963).
AfterWait(call, exited, path) ==
    CASE call = "kill" ->
            IF exited
            THEN [pc |-> "lockExists", outcome |-> "ForceKilled",
                  leave |-> <<"killRunningUnity.return">>, result |-> NoResult]
            ELSE [pc |-> "done", outcome |-> "Failed", leave |-> <<>>,
                  result |-> Thrown("Failed to kill Unity")]
      [] call = "graceful" ->
            IF exited
            THEN [pc |-> "done", outcome |-> "GracefulExit",
                  leave |-> <<"quitRunningUnity.return">>,
                  result |-> QuitResult(path, "GracefulExit")]
            ELSE [pc |-> "forceKill", outcome |-> "", leave |-> <<>>, result |-> NoResult]
      [] OTHER ->
            IF exited
            THEN [pc |-> "done", outcome |-> "ForceKilled",
                  leave |-> <<"quitRunningUnity.return">>,
                  result |-> QuitResult(path, "ForceKilled")]
            ELSE [pc |-> "done", outcome |-> "Failed", leave |-> <<>>,
                  result |-> Thrown("Failed to kill Unity")]

Poll ==
    /\ pc = "wait"
    /\ LET step == waitForProcessExit(isProcessAlive(runningProcess.pid), elapsed,
                                      TimeoutOf(waitFor))
           next == AfterWait(waitFor, step.value, resolvedProjectPath)
       IN  IF ~step.returned
           THEN /\ elapsed' = step.elapsed
                /\ UNCHANGED <<pc, result, events, termOutcome, runningProcess, waitFor>>
           ELSE /\ events' = events \o next.leave
                /\ termOutcome' = next.outcome
                /\ IF next.pc = "forceKill"
                   THEN UNCHANGED <<elapsed, runningProcess, waitFor>>
                   ELSE \* killRunningUnity / quitRunningUnity is left
                        /\ elapsed' = 0
                        /\ waitFor' = ""
                        /\ runningProcess' = undefined
                /\ IF next.pc = "done"
                   THEN Finish(next.result)
                   ELSE pc' = next.pc /\ UNCHANGED result
    /\ UNCHANGED <<cliVars, partVars, options, resolvedProjectPath, unityVersion>>
    /\ UNCHANGED <<matchAtQuery, listOk, lockAtInspect, inspectRan, inspectedHeld,
                   runningAtLaunch, launchedWith, spawnArgs>>
    /\ UNCHANGED worldVars
    /\ contacted' = contacted \cup {runningProcess.pid}
    /\ UNCHANGED listedAtQuery

\* --------------------------------------------------------------- LockGuard
\* An inspection that answers "held" when lsof could not tell.
isLockfileHeldMac_conservative(exists, held, toolOk) == ~toolOk \/ (exists /\ held)

\* lsof <lockfile> printed a line for a process (more than the header line)
\* exactly when it ran and a process has the file open; lsof exiting with 1,
\* or not running at all, is caught and answered FALSE.
isLockfileHeldMac(exists, held, toolOk) == toolOk /\ exists /\ held

\* The PowerShell script prints LOCKED when File.Open(..., FileShare.None)
\* throws an IOException (a sharing violation, or the file is gone), and
\* UNLOCKED otherwise; PowerShell not running is caught and answered FALSE.
isLockfileHeldWindows(exists, held, toolOk) == toolOk /\ (held \/ ~exists)

\* An inspection that never reports a holder.
isLockfileHeld_never(pf, exists, held, toolOk) == FALSE

isLockfileHeld(pf, exists, held, toolOk) ==
    IF pf = "darwin" THEN isLockfileHeldMac(exists, held, toolOk)
    ELSE IF pf = "win32" THEN isLockfileHeldWindows(exists, held, toolOk)
    ELSE FALSE

\* handleStaleLockfile, line 591: existsSync(lockfilePath).
LockExists ==
    /\ pc = "lockExists"
    /\ events' = Append(events, "existsLockfile")
    /\ IF lockfileExists
       THEN pc' = "inspectLock" /\ UNCHANGED lockAtInspect
       ELSE pc' = "launch" /\ lockAtInspect' = "absent"
    /\ UNCHANGED <<cliVars, partVars, options, resolvedProjectPath, unityVersion, runningProcess, waitFor,
                   elapsed, result>>
    /\ UNCHANGED <<termOutcome, matchAtQuery, listOk, inspectRan, inspectedHeld,
                   runningAtLaunch, launchedWith, spawnArgs>>
    /\ UNCHANGED worldVars
    /\ UNCHANGED targetVars

\* A handleStaleLockfile that refuses to go on whenever the lockfile exists.
AfterInspect_anyMarkerBlocks(held) ==
    [pc |-> "done", result |-> Thrown("Unity appears to be running for this project")]

\* A handleStaleLockfile that skips the cleanup.
AfterInspect_noCleanup(held) ==
    IF held
    THEN [pc |-> "done", result |-> Thrown("Unity appears to be running for this project")]
    ELSE [pc |-> "launch", result |-> NoResult]

\* handleStaleLockfile, lines 595-603: a held lockfile stops the pass, any
\* other is cleaned up.
AfterInspect(held) ==
    IF held
    THEN [pc |-> "done", result |-> Thrown("Unity appears to be running for this project")]
    ELSE [pc |-> "rmTemp", result |-> NoResult]

\* handleStaleLockfile, line 595: isLockfileHeld(lockfilePath).
InspectLock ==
    /\ pc = "inspectLock"
    /\ \E toolOk \in BOOLEAN :
          LET held == isLockfileHeld(platform, lockfileExists, lockHolder # 0, toolOk)
              next == AfterInspect(held)
          IN  /\ inspectedHeld' = held
              /\ inspectRan' = (Supported(platform) /\ toolOk)
              /\ IF next.pc = "done"
                 THEN Finish(next.result)
                 ELSE pc' = next.pc /\ UNCHANGED result
    /\ events' = Append(events, "inspectLock")
    /\ lockAtInspect' = (IF ~lockfileExists THEN "absent"
                         ELSE IF lockHolder # 0 THEN "held" ELSE "stale")
    /\ UNCHANGED <<cliVars, partVars, options, resolvedProjectPath, unityVersion, runningProcess, waitFor,
                   elapsed>>
    /\ UNCHANGED <<termOutcome, matchAtQuery, listOk, runningAtLaunch, launchedWith, spawnArgs>>
    /\ UNCHANGED worldVars
    /\ UNCHANGED targetVars

\* handleStaleLockfile, lines 605-611: rm -rf <project>/Temp; a failure is
\* logged and the function goes on.
RemoveTemp ==
    /\ pc = "rmTemp"
    /\ events' = Append(events, "rmTemp")
    /\ \E removed \in BOOLEAN :
          IF removed
          THEN tempExists' = FALSE /\ lockfileExists' = FALSE
          ELSE UNCHANGED <<tempExists, lockfileExists>>
    /\ pc' = "rmLockfile"
    /\ UNCHANGED <<cliVars, partVars, options, resolvedProjectPath, unityVersion, runningProcess, waitFor,
                   elapsed, result>>
    /\ UNCHANGED <<platform, procs, lockHolder, manifest, starts, foreign>>
    /\ UNCHANGED seenVars
    /\ UNCHANGED targetVars

\* handleStaleLockfile, lines 613-620: rm -f <project>/Temp/UnityLockfile.
RemoveLockfile ==
    /\ pc = "rmLockfile"
    /\ events' = Append(events, "rmLockfile")
    /\ \E removed \in BOOLEAN :
          lockfileExists' = (IF removed THEN FALSE ELSE lockfileExists)
    /\ pc' = "launch"
    /\ UNCHANGED <<cliVars, partVars, options, resolvedProjectPath, unityVersion, runningProcess, waitFor,
                   elapsed, result>>
    /\ UNCHANGED <<platform, procs, tempExists, lockHolder, manifest, starts, foreign>>
    /\ UNCHANGED seenVars
    /\ UNCHANGED targetVars

\* ------------------------------------------------------------------ launch
\* The words on the command lines of the model.
Words == {"--", "-buildTarget", "-buildTarget=iOS", "-buildtarget", "-quit"}
SeqsUpTo(S, n) == UNION {[1..k -> S] : k \in 0..n}
CommandLines == SeqsUpTo(Words, MaxArgs)
PlatformOptions == {"", "Android"}
HubCliArgSets == {<<>>, <<"-cacheServerEndpoint">>, <<"-buildTarget", "iOS">>}

\* Array.prototype.indexOf, counted from 1; 0 when the word is not there.
indexOf(args, word) ==
    IF \E i \in 1..Len(args) : args[i] = word
    THEN CHOOSE i \in 1..Len(args) :
            args[i] = word /\ \A j \in 1..(i - 1) : args[j] # word
    ELSE 0

\* parseArgs, lines 136-140: the command line is cut at the first "--".
parseArgs(args) ==
    LET doubleDashIndex == indexOf(args, "--")
    IN  [cliArgs |-> IF doubleDashIndex > 0 THEN SubSeq(args, 1, doubleDashIndex - 1)
                     ELSE args,
         unityArgs |-> IF doubleDashIndex > 0
                       THEN SubSeq(args, doubleDashIndex + 1, Len(args))
                       ELSE <<>>]

\* String.prototype.startsWith("-buildTarget=") on the words of the model.
startsWithBuildTargetEq(word) == word = "-buildTarget=iOS"

\* A test that knows only the two-word form.
hasBuildTargetArg_exactOnly(unityArgs) ==
    \E i \in 1..Len(unityArgs) : unityArgs[i] = "-buildTarget"

hasBuildTargetArg(unityArgs) ==
    \E i \in 1..Len(unityArgs) :
        unityArgs[i] = "-buildTarget" \/ startsWithBuildTargetEq(unityArgs[i])

\* The project path as the string it is on a command line.
PathText(path) ==
    CASE path = ProjectP -> "/p"
      [] path = ProjectQ -> "/q"
      [] OTHER -> ""

\* An argument vector with the Unity Hub options after the passthrough ones.
launchArgs_hubArgsLast(projectPath, platformOpt, unityArgs, hubArgs) ==
    <<"-projectPath", projectPath>>
        \o (IF platformOpt # "" /\ ~hasBuildTargetArg(unityArgs)
            THEN <<"-buildTarget", platformOpt>> ELSE <<>>)
        \o unityArgs
        \o hubArgs

\* launch(), lines 861-881: the argument vector `args`.
launchArgs(projectPath, platformOpt, unityArgs, hubArgs) ==
    <<"-projectPath", projectPath>>
        \o (IF platformOpt # "" /\ ~hasBuildTargetArg(unityArgs)
            THEN <<"-buildTarget", platformOpt>> ELSE <<>>)
        \o hubArgs
        \o unityArgs

\* launch(), lines 847-881: the editor of the project's version must be
\* installed; the Unity Hub launch options are read and the arguments built.
Launch ==
    /\ pc = "launch"
    /\ events' = Append(events, "launch")
    /\ launchedWith' = [projectPath |-> resolvedProjectPath, unityVersion |-> unityVersion]
    /\ runningAtLaunch' = (\E p \in Pids : EditorOf(p, resolvedProjectPath))
    /\ \E installed \in BOOLEAN :
          IF installed
          THEN /\ pc' = "spawn"
               /\ spawnArgs' = launchArgs(PathText(resolvedProjectPath), platformOption,
                                          parseArgs(argv).unityArgs, hubCliArgs)
               /\ UNCHANGED result
          ELSE Finish(Thrown("Unity not found")) /\ UNCHANGED spawnArgs
    /\ UNCHANGED <<cliVars, partVars, options, resolvedProjectPath, unityVersion, runningProcess, waitFor,
                   elapsed>>
    /\ UNCHANGED <<termOutcome, matchAtQuery, listOk, lockAtInspect, inspectRan,
                   inspectedHeld>>
    /\ UNCHANGED worldVars
    /\ UNCHANGED targetVars

\* A launch() whose promise is resolved whether the child was spawned or not.
AfterSpawn_alwaysResolves(spawned) == [pc |-> "hubTouch", result |-> NoResult]

\* How the promise of launch() settles (lines 883-907), and where
\* orchestrateLaunch goes: resolved on "spawn", rejected on "error".
AfterSpawn(spawned) ==
    IF spawned THEN [pc |-> "hubTouch", result |-> NoResult]
    ELSE [pc |-> "done", result |-> Thrown("Failed to launch Unity")]

\* launch(), lines 883-907: spawn, resolved on "spawn", rejected on "error".
Spawn ==
    /\ pc = "spawn"
    /\ \E spawned \in BOOLEAN :
          /\ events' = Append(events, "spawn")
                \o (IF spawned THEN <<>> ELSE <<"spawn.failed">>)
          /\ IF AfterSpawn(spawned).pc = "done"
             THEN Finish(AfterSpawn(spawned).result)
             ELSE pc' = AfterSpawn(spawned).pc /\ UNCHANGED result
    /\ UNCHANGED <<cliVars, partVars, options, resolvedProjectPath, unityVersion, runningProcess, waitFor,
                   elapsed>>
    /\ UNCHANGED <<worldVars, seenVars>>
    /\ UNCHANGED targetVars

\* An orchestrateLaunch without the try around updateLastModifiedIfExists.
AfterHubTouch_uncaught(touched, path, version, isRestart) ==
    IF touched
    THEN [log |-> <<>>, result |-> Launched(path, version, isRestart)]
    ELSE [log |-> <<>>, result |-> Thrown("Failed to update Unity Hub lastModified")]

\* orchestrateLaunch, lines 991-1001: what follows updateLastModifiedIfExists,
\* which threw unless `touched`.
AfterHubTouch(touched, path, version, isRestart) ==
    [log |-> IF touched THEN <<>> ELSE <<"hubTouch.warn">>,
     result |-> Launched(path, version, isRestart)]

\* orchestrateLaunch, lines 991-1001: the Unity Hub timestamp, whose failure
\* is logged, then the result.
HubTouch ==
    /\ pc = "hubTouch"
    /\ \E touched \in BOOLEAN :
          LET next == AfterHubTouch(touched, resolvedProjectPath, unityVersion,
                                    options.restart)
          IN  /\ events' = Append(events, "hubTouch") \o next.log
              /\ Finish(next.result)
    /\ UNCHANGED <<cliVars, partVars, options, resolvedProjectPath, unityVersion, runningProcess, waitFor,
                   elapsed>>
    /\ UNCHANGED <<worldVars, seenVars>>
    /\ UNCHANGED targetVars

\* orchestrateLaunch, lines 952-959: the Unity Hub entry, then "hub-updated".
HubEnsure ==
    /\ pc = "hubEnsure"
    /\ events' = Append(events, "hubEnsure")
    /\ Finish(HubUpdated(resolvedProjectPath, unityVersion))
    /\ UNCHANGED <<cliVars, partVars, options, resolvedProjectPath, unityVersion, runningProcess, waitFor,
                   elapsed>>
    /\ UNCHANGED <<worldVars, seenVars>>
    /\ UNCHANGED targetVars

\* ------------------------------------------------------------ the behaviour
\* The editor's own life goes on while the pass runs; what it did before the
\* pass began is in the initial state.
World ==
    /\ pc \notin {"begin", "done"}
    /\ starts < MaxStarts
    /\ \/ \E p \in Pids : EditorStart(p)
       \/ \E p \in Pids : EditorOpenLock(p)
       \/ \E p \in Pids, clean \in BOOLEAN : EditorExit(p, clean)

Next ==
    \/ Begin
    \/ HubEnsure
    \/ FindRunning
    \/ Focus
    \/ KillProcess
    \/ SendGracefulQuit
    \/ Poll
    \/ LockExists
    \/ InspectLock
    \/ RemoveTemp
    \/ RemoveLockfile
    \/ Launch
    \/ Spawn
    \/ HubTouch
    \/ World

Spec == Init /\ [][Next]_vars

\* The same pass among editors of another account (another user's session,
\* an elevated editor): process.kill on them throws EPERM.
ForeignInit == InitAmong({TRUE})
ForeignSpec == ForeignInit /\ [][Next]_vars

\* ============================================================== properties
\* The vocabulary of the properties.
Count(e) == Cardinality({i \in 1..Len(events) : events[i] = e})
\* Position of the first call `e` among the calls made, 0 when never made.
FirstIndex(e) ==
    IF Count(e) = 0 THEN 0
    ELSE CHOOSE i \in 1..Len(events) :
            events[i] = e /\ \A j \in 1..(i - 1) : events[j] # e

RegisterOnly == options.addUnityHub \/ options.favoriteUnityHub
PlainLaunch == ~options.restart /\ ~options.quit /\ ~RegisterOnly
RestartPass == options.restart /\ ~options.quit /\ ~RegisterOnly
QuitPass == options.quit /\ ~options.restart /\ ~RegisterOnly
\* The project was resolved and its manifest read.
Validated == resolvedProjectPath # NoPath
\* The version on the m_EditorVersion line of the manifest.
DeclaredVersion ==
    IF \E i \in 1..Len(manifest.lines) : manifest.lines[i].key = "m_EditorVersion"
    THEN manifest.lines[CHOOSE i \in 1..Len(manifest.lines) :
                            manifest.lines[i].key = "m_EditorVersion"].value
    ELSE ""
NoCleanup == Count("rmTemp") = 0 /\ Count("rmLockfile") = 0
NoLockCheck == Count("existsLockfile") = 0 /\ Count("inspectLock") = 0
NoLaunch == Count("launch") = 0 /\ Count("spawn") = 0
NoSignal == Count("SIGKILL") = 0 /\ Count("gracefulQuit") = 0
LockHeldError == Thrown("Unity appears to be running for this project")
TerminationError == Thrown("Failed to kill Unity")

\* C1 (as stated): launch() is never called at a moment when an editor that
\* has the project open is running.
C1_NeverLaunchedOverRunningEditor ==
    Count("launch") > 0 => ~runningAtLaunch

\* C1 (amended): launch() is called only after the pass's own checks came
\* out clear: in a plain launch its process query returned no instance (and,
\* when the query worked, none was there at that moment); in a restart
\* killRunningUnity returned without error; and the lock inspection, when it
\* ran, did not see the lockfile held. An editor that starts after these
\* checks can be running when launch() is called.
C1_LaunchedOnlyAfterClearChecks ==
    Count("launch") > 0 =>
        /\ ~options.quit /\ ~RegisterOnly
        /\ ~options.restart =>
              /\ runningProcess = undefined
              /\ listOk => matchAtQuery = {}
        /\ options.restart => termOutcome \in {"NotFound", "ForceKilled"}
        /\ ~inspectedHeld
        /\ ~(lockAtInspect = "held" /\ inspectRan)

\* An editor started after the checks is running when launch() is called.
C1_Witness ==
    /\ Count("launch") = 1
    /\ PlainLaunch /\ listOk /\ matchAtQuery = {}
    /\ runningAtLaunch

\* C2: in a plain launch pass whose process query worked while an
\* interactive editor of the project was running, the pass focuses that
\* editor and returns Focused with its pid; it never checks or cleans the
\* lockfile and never calls launch().
C2_RunningInstanceIsFocused ==
    (PlainLaunch /\ listOk /\ matchAtQuery # {}) =>
        /\ pc \in {"focus", "done"}
        /\ runningProcess.pid \in matchAtQuery
        /\ pc = "done" => result = Focused(resolvedProjectPath, runningProcess.pid)
        /\ NoLaunch /\ NoLockCheck /\ NoCleanup

\* The editor was found although its command line spells the path differently.
C2_Witness ==
    /\ pc = "done" /\ PlainLaunch /\ listOk
    /\ result.action = "focused"
    /\ result.pid \in matchAtQuery
    /\ Alive(result.pid) /\ procs[result.pid].projectPath # resolvedProjectPath

\* C3: in a launch pass that found no running instance, a lockfile that a
\* process holds open when the inspection runs ends the pass in the
\* lock-held error; nothing is deleted and launch() is not called.
C3_HeldLockRefusesLaunch ==
    (~options.restart /\ lockAtInspect = "held" /\ inspectRan) =>
        /\ pc = "done"
        /\ result = LockHeldError
        /\ NoLaunch /\ NoCleanup

\* The lockfile is held by an editor the process query does not list.
C3_Witness ==
    /\ PlainLaunch /\ lockAtInspect = "held" /\ inspectRan
    /\ listOk /\ matchAtQuery = {}
    /\ result = LockHeldError /\ tempExists /\ lockfileExists

CleanLaunchOver ==
    /\ pc = "done" /\ PlainLaunch /\ Validated
    /\ DeclaredVersion \in Versions
    /\ Count("existsLockfile") = 1 /\ Count("inspectLock") = 0

\* C5 (as stated): a launch pass that found no running instance and no
\* lockfile returns Launched with the manifest's version.
C5_CleanLaunchReturnsLaunched ==
    CleanLaunchOver => result = Launched(resolvedProjectPath, DeclaredVersion, FALSE)

\* C5 (amended): a launch pass that found no running instance and no
\* lockfile calls launch() exactly once, with the version on the manifest's
\* m_EditorVersion line, sends no signal and deletes nothing; it returns
\* Launched with that version when the editor could be started, and ends in
\* the launch error otherwise.
C5_CleanLaunchCallsLaunchOnce ==
    CleanLaunchOver =>
        /\ Count("launch") = 1
        /\ launchedWith = [projectPath |-> resolvedProjectPath,
                           unityVersion |-> DeclaredVersion]
        /\ NoSignal /\ NoCleanup
        /\ \/ /\ result = Launched(resolvedProjectPath, DeclaredVersion, FALSE)
              /\ Count("spawn") = 1
           \/ result = Thrown("Unity not found") /\ Count("spawn") = 0
           \/ result = Thrown("Failed to launch Unity") /\ Count("spawn") = 1

C5_Witness ==
    /\ CleanLaunchOver
    /\ DeclaredVersion = "2022.3.5f1"
    /\ result = Launched(resolvedProjectPath, "2022.3.5f1", FALSE)
    /\ events = <<"listProcesses", "existsLockfile", "launch", "spawn", "hubTouch">>

\* C6: in a restart pass killRunningUnity is entered and has returned before
\* launch() is called; when it finds no instance it sends no signal and the
\* pass goes on to the lock check and, unless the lock is held, to launch().
C6_RestartTerminatesBeforeLaunch ==
    RestartPass =>
        /\ Validated => Count("killRunningUnity") = 1
        /\ Count("launch") > 0 =>
              /\ 0 < FirstIndex("killRunningUnity")
              /\ FirstIndex("killRunningUnity") < FirstIndex("killRunningUnity.return")
              /\ FirstIndex("killRunningUnity.return") < FirstIndex("launch")
        /\ termOutcome = "NotFound" =>
              /\ NoSignal
              /\ pc \in {"lockExists", "inspectLock", "rmTemp", "rmLockfile",
                         "launch", "spawn", "hubTouch", "done"}
              /\ pc = "done" => (Count("launch") = 1 \/ result = LockHeldError)

C6_Witness ==
    /\ RestartPass /\ termOutcome = "NotFound"
    /\ pc = "done" /\ result.action = "killed-and-launched"
    /\ Count("killRunningUnity.return") = 1

\* C7: when the process is still seen alive at the end of the kill timeout,
\* the pass is over with the termination error: no lock check, no cleanup
\* and no launch() follow.
C7_FailedTerminationEndsPass ==
    termOutcome = "Failed" =>
        /\ pc = "done"
        /\ result = TerminationError
        /\ NoLaunch /\ NoLockCheck /\ NoCleanup /\ Count("hubTouch") = 0

C7_Witness ==
    /\ termOutcome = "Failed" /\ RestartPass
    /\ Count("SIGKILL") = 1
    /\ \E p \in matchAtQuery : Alive(p)

C9_ForcedExitDistinguishable ==
    (QuitPass /\ pc = "done" /\ termOutcome = "ForceKilled") =>
        result # QuitResult(resolvedProjectPath, "GracefulExit")

\* C10: a quit pass makes no lock check, no cleanup and no launch() call; it
\* ends with the quit result (without any signal when no instance was
\* found) or with the termination error.
C10_QuitNeverLaunches ==
    QuitPass =>
        /\ NoLaunch /\ NoLockCheck /\ NoCleanup /\ Count("hubTouch") = 0
        /\ (pc = "done" /\ Validated) =>
              \/ result = [NoResult EXCEPT !.action = "quit",
                                           !.projectPath = resolvedProjectPath]
              \/ result = TerminationError /\ termOutcome = "Failed"
        /\ termOutcome = "NotFound" =>
              /\ NoSignal
              /\ pc = "done" /\ result.action = "quit"

C10_Witness ==
    /\ QuitPass /\ pc = "done" /\ termOutcome = "NotFound"
    /\ result.action = "quit"
    /\ lockfileExists /\ lockHolder = 0

\* C11: a pass with the add-to-Hub or favorite flag (alone, or with one of
\* restart and quit) on a validated project makes no process query, sends no
\* signal, makes no lock check or cleanup and no launch() call, and returns
\* hub-updated.
C11_RegisterOnlyTouchesNothingElse ==
    (RegisterOnly /\ Validated) =>
        /\ pc \in {"hubEnsure", "done"}
        /\ Count("listProcesses") = 0
        /\ Count("killRunningUnity") = 0 /\ Count("quitRunningUnity") = 0
        /\ NoSignal /\ NoLockCheck /\ NoCleanup /\ NoLaunch /\ Count("hubTouch") = 0
        /\ pc = "done" =>
              /\ result = HubUpdated(resolvedProjectPath, unityVersion)
              /\ events = <<"hubEnsure">>

\* The flag came with --restart while an editor of the project was running.
C11_Witness ==
    /\ RegisterOnly /\ options.restart /\ pc = "done"
    /\ result.action = "hub-updated"
    /\ \E p \in Pids : EditorOf(p, ProjectP) /\ ~BatchMode(p)

\* C12: when the project cannot be resolved, its directory does not exist,
\* or its manifest is missing or has no value on its m_EditorVersion line,
\* the pass ends in an error before any call to the outside (process query,
\* signal, lock check, cleanup, registry write, launch), whatever the flags.
C12_InvalidProjectEndsBeforeAnyStep ==
    /\ DeclaredVersion = "" =>
          /\ pc \in {"begin", "done"}
          /\ events = <<>>
          /\ pc = "done" => result.action = "error"
    /\ (pc = "done" /\ ~Validated) => (result.action = "error" /\ events = <<>>)

QueryFailed == Count("listProcesses") = 1 /\ ~listOk

\* C14: when the process query fails the pass goes on as if no editor was
\* running: no focus and no signal; a plain launch goes to the lock check, a
\* restart and a quit take the not-found path; the pass never ends in an
\* error of the query.
C14_FailedQueryMeansNoInstance ==
    QueryFailed =>
        /\ runningProcess = undefined
        /\ NoSignal /\ Count("focus") = 0
        /\ ~options.quit =>
              /\ pc \in {"lockExists", "inspectLock", "rmTemp", "rmLockfile",
                         "launch", "spawn", "hubTouch", "done"}
              /\ pc # "lockExists" => Count("existsLockfile") = 1
              /\ options.restart => termOutcome = "NotFound"
              /\ (pc = "done" /\ result.action = "error") =>
                    result \in {LockHeldError, Thrown("Unity not found"),
                                Thrown("Failed to launch Unity")}
        /\ options.quit =>
              /\ termOutcome = "NotFound"
              /\ pc = "done" /\ result.action = "quit"

\* The query failed while an editor of the project was running.
C14_Witness ==
    /\ QueryFailed /\ matchAtQuery # {}
    /\ RestartPass /\ pc = "done"
    /\ result.action = "killed-and-launched"

\* C15: when the Unity Hub timestamp update fails after the editor was
\* spawned, the pass still returns launched (killed-and-launched in a
\* restart pass), not an error.
C15_HubFailureKeepsOutcome ==
    Count("hubTouch") = 1 =>
        /\ pc = "done"
        /\ Count("spawn") = 1
        /\ result = Launched(resolvedProjectPath, unityVersion, options.restart)
        /\ result.action \in {"launched", "killed-and-launched"}

C15_Witness ==
    /\ pc = "done" /\ Count("hubTouch.warn") = 1
    /\ result.action = "killed-and-launched"

\* C16: a failing focus call still ends the pass with the focused result,
\* and a failing graceful close request is still followed by the liveness
\* poll of the graceful wait; neither ends the pass in an error of its own.
C16_BestEffortCallsNeverAbort ==
    /\ Count("focus.failed") = 1 =>
          /\ pc = "done"
          /\ result = Focused(resolvedProjectPath, runningProcess.pid)
    /\ Count("gracefulQuit.failed") = 1 =>
          /\ \/ pc = "wait" /\ waitFor \in {"graceful", "afterKill"}
             \/ pc = "forceKill"
             \/ pc = "done" /\ termOutcome \in {"GracefulExit", "ForceKilled", "Failed"}
          /\ (pc = "done" /\ termOutcome # "Failed") =>
                result = QuitResult(resolvedProjectPath, termOutcome)

C16_Witness ==
    /\ PlainLaunch /\ Count("focus.failed") = 1
    /\ result.action = "focused" /\ Alive(result.pid)

\* The close request failed and the editor was seen gone by the poll.
C16_GracefulCase ==
    Count("gracefulQuit.failed") = 1 /\ termOutcome = "GracefulExit"

\* ------------------------------------------------ the Terminator on its own
\* A pass that asks for a termination (--restart or --quit) on a valid
\* project, followed up to the return of killRunningUnity / quitRunningUnity.
TerminatorInit ==
    /\ Init
    /\ options.quit # options.restart
    /\ ~options.addUnityHub /\ ~options.favoriteUnityHub
    /\ manifest = Manifest("2022.3.5f1")

\* The steps of the pass there: the event loop runs every continuation and
\* fires every timer.
TerminatorStep ==
    \/ Begin
    \/ FindRunning
    \/ SendGracefulQuit
    \/ KillProcess
    \/ Poll

TerminatorNext ==
    \/ TerminatorStep
    \/ World

\* The pass is owed its steps; the editor owes nothing.
TerminatorSpec == TerminatorInit /\ [][TerminatorNext]_vars /\ WF_vars(TerminatorStep)

\* killRunningUnity or quitRunningUnity was entered.
TerminationRequested == Count("killRunningUnity") + Count("quitRunningUnity") = 1
TerminalOutcomes == {"NotFound", "GracefulExit", "ForceKilled", "Failed"}

\* C17: every call of killRunningUnity or quitRunningUnity comes to one of
\* the outcomes NotFound, GracefulExit, ForceKilled, Failed, and no wait
\* polls beyond its timeout, whatever the editor does or does not do.
C17_TerminationRequestEnds ==
    /\ [](pc = "wait" => elapsed < TimeoutOf(waitFor) + SleepMs(KILL_POLL_INTERVAL_MS))
    /\ TerminationRequested ~> (termOutcome \in TerminalOutcomes)

\* The editor outlived the graceful wait and the wait after SIGKILL.
C17_Witness ==
    /\ QuitPass /\ termOutcome = "Failed"
    /\ Count("gracefulQuit") = 1 /\ Count("SIGKILL") = 1
    /\ \E p \in matchAtQuery : Alive(p)

\* --------------------------------------------------- the launch on its own
\* A plain launch in a quiet world (no editor running, no lockfile, a valid
\* manifest), with any command line for the editor.
ArgsInit ==
    /\ platform = "darwin"
    /\ foreign = FALSE
    /\ procs = [p \in Pids |-> NoProcess]
    /\ lockHolder = 0
    /\ lockfileExists = FALSE
    /\ tempExists = FALSE
    /\ manifest = Manifest("2022.3.5f1")
    /\ starts = 0
    /\ options = [restart |-> FALSE, quit |-> FALSE,
                  addUnityHub |-> FALSE, favoriteUnityHub |-> FALSE]
    /\ argv \in CommandLines
    /\ platformOption \in PlatformOptions
    /\ hubCliArgs \in HubCliArgSets
    /\ StartOfPass
    /\ PartsIdle

ArgsNext ==
    \/ Begin
    \/ FindRunning
    \/ LockExists
    \/ Launch
    \/ Spawn
    \/ HubTouch

ArgsSpec == ArgsInit /\ [][ArgsNext]_vars

\* The passthrough arguments: what follows the first "--" of the command line.
Passthrough ==
    IF \E i \in 1..Len(argv) : argv[i] = "--"
    THEN LET first == CHOOSE i \in 1..Len(argv) :
                        argv[i] = "--" /\ \A j \in 1..(i - 1) : argv[j] # "--"
         IN  [k \in 1..(Len(argv) - first) |-> argv[first + k]]
    ELSE <<>>
\* A passthrough argument names the build target.
PassthroughHasBuildTarget ==
    \E i \in 1..Len(Passthrough) :
        Passthrough[i] \in {"-buildTarget", "-buildTarget=iOS"}
\* What launch() itself put between the project path and the Hub options.
AddedByLaunch ==
    SubSeq(spawnArgs, 3, Len(spawnArgs) - Len(hubCliArgs) - Len(Passthrough))

\* launch() was called and found the editor installed: it built the arguments.
ArgsBuilt == Count("launch") = 1 /\ result # Thrown("Unity not found")

\* C18: the arguments built by launch() carry "-buildTarget <platform>" of
\* the platform option exactly when the option is not empty and no
\* passthrough argument is "-buildTarget" or begins with "-buildTarget=";
\* otherwise launch() adds nothing for the platform.
C18_BuildTargetAddedIffNotPassed ==
    ArgsBuilt =>
        /\ (platformOption # "" /\ ~PassthroughHasBuildTarget) =>
              AddedByLaunch = <<"-buildTarget", platformOption>>
        /\ (platformOption = "" \/ PassthroughHasBuildTarget) =>
              AddedByLaunch = <<>>

\* The platform option is given and a passthrough argument overrides it.
C18_Witness ==
    /\ pc = "spawn" /\ platformOption = "Android"
    /\ Passthrough = <<"-buildTarget=iOS">>
    /\ spawnArgs = <<"-projectPath", "/p", "-buildTarget=iOS">>

\* C19: the arguments built by launch() begin with "-projectPath" and the
\* resolved project path and end with the passthrough arguments, unchanged
\* and in order, which come after the platform and Unity Hub arguments.
C19_ProjectPathFirstPassthroughLast ==
    ArgsBuilt =>
        /\ Len(spawnArgs) >= 2 + Len(hubCliArgs) + Len(Passthrough)
        /\ spawnArgs[1] = "-projectPath"
        /\ spawnArgs[2] = PathText(resolvedProjectPath)
        /\ SubSeq(spawnArgs, Len(spawnArgs) - Len(Passthrough) + 1, Len(spawnArgs))
              = Passthrough
        /\ SubSeq(spawnArgs, Len(spawnArgs) - Len(Passthrough) - Len(hubCliArgs) + 1,
                  Len(spawnArgs) - Len(Passthrough)) = hubCliArgs
        /\ Len(spawnArgs) = 2 + Len(AddedByLaunch) + Len(hubCliArgs) + Len(Passthrough)

\* A second "--" stays among the passthrough arguments.
C19_Witness ==
    /\ pc = "spawn" /\ platformOption = "Android"
    /\ argv = <<"--", "-quit", "--">>
    /\ hubCliArgs = <<"-buildTarget", "iOS">>
    /\ spawnArgs = <<"-projectPath", "/p", "-buildTarget", "Android",
                     "-buildTarget", "iOS", "-quit", "--">>

\* C20: a pass whose launch succeeded returns killed-and-launched exactly
\* when it went through killRunningUnity (whether or not that found and
\* killed a process), and launched exactly when it did not.
C20_ResultTellsRestart ==
    (pc = "done" /\ Count("hubTouch") = 1) =>
        /\ result.action \in {"launched", "killed-and-launched"}
        /\ result.action = "killed-and-launched" <=> Count("killRunningUnity") = 1
        /\ result.action = "launched" <=> Count("killRunningUnity") = 0
        /\ result.projectPath = resolvedProjectPath
        /\ result.unityVersion = unityVersion

\* The restart found nothing to kill and the result still says killed.
C20_Witness ==
    /\ pc = "done" /\ result.action = "killed-and-launched"
    /\ listOk /\ matchAtQuery = {} /\ NoSignal
    /\ Count("killRunningUnity") = 1

\* ================================================ components on their own
\* The pass and its world while a component is run on its own.
orchestrationVars == <<worldVars, cliVars, options, pc, resolvedProjectPath, unityVersion,
                       runningProcess, waitFor, elapsed, result, events, seenVars,
                       targetVars>>
\* What a component leaves alone while it runs.
beyondSearch == <<orchestrationVars, pathVars, registryVars, quitVars, promptVars, hubVars>>
beyondPaths == <<orchestrationVars, searchVars, registryVars, quitVars, promptVars, hubVars>>
beyondRegistry == <<orchestrationVars, searchVars, pathVars, quitVars, promptVars, hubVars>>
beyondQuit == <<orchestrationVars, searchVars, pathVars, registryVars, promptVars, hubVars>>
beyondPrompt == <<orchestrationVars, searchVars, pathVars, registryVars, quitVars, hubVars>>
beyondHub == <<orchestrationVars, searchVars, pathVars, registryVars, quitVars, promptVars>>
\* No pass is running on the platform, where the processes are `running`.
NoPassAmong(pf, running) ==
    /\ platform = pf
    /\ foreign = FALSE
    /\ procs = running
    /\ lockHolder = 0
    /\ lockfileExists = FALSE
    /\ tempExists = FALSE
    /\ manifest = NoFile
    /\ starts = 0
    /\ options = [restart |-> FALSE, quit |-> FALSE,
                  addUnityHub |-> FALSE, favoriteUnityHub |-> FALSE]
    /\ argv = <<>>
    /\ platformOption = ""
    /\ hubCliArgs = <<>>
    /\ StartOfPass
NoPassOn(pf) == NoPassAmong(pf, [p \in Pids |-> NoProcess])
NoPass == NoPassOn("darwin")

\* ---------------------------------------------------------- ProjectLocator
\* A directory is the sequence of the names on its path. The names found
\* below a search root, and the search roots themselves.
DirNames == {"alpha", "Alpha", "Beta", "Library"}
SearchRoots == {<<"work">>, <<"Temp">>}
MaxDepths == (-1)..MaxSearchDepth

EXCLUDED_DIR_NAMES ==
    {"library", "temp", "logs", "obj", ".git", "node_modules", ".idea", ".vscode", ".vs"}

\* String.prototype.toLocaleLowerCase on the names the model uses.
toLocaleLowerCase(name) ==
    CASE name = "Alpha" -> "alpha"
      [] name = "Beta" -> "beta"
      [] name = "Library" -> "library"
      [] name = "Temp" -> "temp"
      [] OTHER -> name

\* String.prototype.localeCompare on the names the model uses: negative
\* when a sorts before b (lower case before upper case of the same letter).
localeRank(name) ==
    CASE name = "alpha" -> 1
      [] name = "Alpha" -> 2
      [] name = "Beta" -> 3
      [] name = "Library" -> 4
      [] OTHER -> 5
localeCompare(a, b) == localeRank(a) - localeRank(b)

\* node:path join(dir, name).
join(dir, name) == Append(dir, name)

\* toComparablePath(normalizePath(dir)) of a directory given by its names:
\* the names are folded to lower case (the path is absolute and has no
\* trailing separator, so normalizePath leaves it alone).
comparableKey(dir) == [i \in 1..Len(dir) |-> toLocaleLowerCase(dir[i])]

\* All sets of at most n entries below `root` in which every entry has its
\* parent.
RECURSIVE TreesUpTo(_, _)
TreesUpTo(root, n) ==
    IF n = 0 THEN {{}}
    ELSE LET smaller == TreesUpTo(root, n - 1)
         IN  smaller \cup
             UNION { { T \cup {join(parent, name)} :
                         parent \in T \cup {root}, name \in DirNames } : T \in smaller }

\* The entries of a tree that have no entry below them.
Leaves(T) == { d \in T : \A name \in DirNames : join(d, name) \notin T }

isUnityProjectRoot(candidateDir) == candidateDir \in projectRoots

\* Dirent.isDirectory(): false for a symbolic link, whatever it points to.
isDirectory(entry) == entry \in dirents /\ entry \notin symlinks

\* Array.prototype.sort with localeCompare, on a set of names.
RECURSIVE sortNames(_)
sortNames(names) ==
    IF names = {} THEN <<>>
    ELSE LET first == CHOOSE a \in names : \A b \in names : localeCompare(a, b) <= 0
         IN  <<first>> \o sortNames(names \ {first})

\* A listing that compares the names with the deny-list as they are spelled.
listSubdirectoriesSorted_caseSensitive(dir) ==
    IF dir \in unreadable THEN <<>>
    ELSE LET subdirs == { name \in DirNames :
                            /\ isDirectory(join(dir, name))
                            /\ name \notin EXCLUDED_DIR_NAMES }
             sorted == sortNames(subdirs)
         IN  [i \in 1..Len(sorted) |-> join(dir, sorted[i])]

listSubdirectoriesSorted(dir) ==
    IF dir \in unreadable THEN <<>>
    ELSE LET subdirs == { name \in DirNames :
                            /\ isDirectory(join(dir, name))
                            /\ toLocaleLowerCase(name) \notin EXCLUDED_DIR_NAMES }
             sorted == sortNames(subdirs)
         IN  [i \in 1..Len(sorted) |-> join(dir, sorted[i])]

\* lstatSync(child): what the entry is now.
lstatSync(child) ==
    IF child \notin dirents THEN "missing"
    ELSE IF child \in symlinks THEN "link"
    ELSE "dir"

\* realpathSync of an entry: a link leads to the search root.
realpathSync(child) == IF child \in symlinks THEN searchRoot ELSE child

\* A descent that is allowed one level too deep.
canDescend_offByOne(limit, depth) == limit = -1 \/ depth <= limit

canDescend(limit, depth) == limit = -1 \/ depth < limit

\* A loop over the children that pushes every child, visited or not.
RECURSIVE enqueueChildren_noVisitedCheck(_, _, _, _)
enqueueChildren_noVisitedCheck(children, depth, seen, q) ==
    IF children = <<>> THEN [visited |-> seen, queue |-> q, pushed |-> <<>>]
    ELSE LET child == Head(children)
             stat == lstatSync(child)
             childCanonical == IF stat = "link" THEN realpathSync(child) ELSE child
             key == comparableKey(childCanonical)
         IN  IF stat = "missing"
             THEN enqueueChildren_noVisitedCheck(Tail(children), depth, seen, q)
             ELSE LET entry == [dir |-> childCanonical, depth |-> depth + 1]
                      rest == enqueueChildren_noVisitedCheck(
                                  Tail(children), depth, seen \cup {key}, Append(q, entry))
                  IN  [rest EXCEPT !.pushed = <<entry>> \o @]

\* The loop over the children of a directory (lines 820-842): the visited
\* set and the queue after it, and the entries it pushed.
RECURSIVE enqueueChildren(_, _, _, _)
enqueueChildren(children, depth, seen, q) ==
    IF children = <<>> THEN [visited |-> seen, queue |-> q, pushed |-> <<>>]
    ELSE LET child == Head(children)
             stat == lstatSync(child)
             childCanonical == IF stat = "link" THEN realpathSync(child) ELSE child
             key == comparableKey(childCanonical)
         IN  IF stat = "missing" \/ key \in seen
             THEN enqueueChildren(Tail(children), depth, seen, q)
             ELSE LET entry == [dir |-> childCanonical, depth |-> depth + 1]
                      rest == enqueueChildren(
                                  Tail(children), depth, seen \cup {key}, Append(q, entry))
                  IN  [rest EXCEPT !.pushed = <<entry>> \o @]

\* findUnityProjectBfs is called on any small tree, with any depth limit.
SearchInit ==
    /\ NoPass
    /\ NoComparison
    /\ NoListing
    /\ NoQuitCommand
    /\ NoPromptCommand
    /\ NoHubRegistry
    /\ searchRoot \in SearchRoots
    /\ maxDepth \in MaxDepths
    /\ dirents \in TreesUpTo(searchRoot, MaxDirs)
    /\ \E special \in {"none", "link", "unreadable"} :
          /\ symlinks \in IF special = "link" THEN { {d} : d \in Leaves(dirents) } ELSE {{}}
          /\ unreadable \in IF special = "unreadable" THEN { {d} : d \in dirents } ELSE {{}}
    /\ projectRoots \in { P \in SUBSET ((dirents \ symlinks) \cup {searchRoot}) :
                           Cardinality(P) <= 2 }
    /\ searchPc = "start"
    /\ queue = <<>>
    /\ visited = {}
    /\ bfsResult = NoPath
    /\ tested = <<>>
    /\ enqueued = <<>>

\* Lines 793-801: the root is pushed and marked visited.
BfsStart ==
    /\ searchPc = "start"
    /\ searchPc' = "loop"
    /\ queue' = <<[dir |-> searchRoot, depth |-> 0]>>
    /\ visited' = {comparableKey(searchRoot)}
    /\ enqueued' = <<[dir |-> searchRoot, depth |-> 0]>>
    /\ UNCHANGED <<searchRoot, maxDepth, dirents, symlinks, unreadable, projectRoots,
                   bfsResult, tested>>
    /\ UNCHANGED beyondSearch

\* One turn of the while loop (lines 803-843). The directory is returned
\* through normalizePath, which leaves a resolved directory as it is.
BfsVisit ==
    /\ searchPc = "loop"
    /\ queue # <<>>
    /\ LET current == Head(queue)
       IN  /\ tested' = Append(tested, current)
           /\ IF isUnityProjectRoot(current.dir)
              THEN /\ searchPc' = "done"
                   /\ bfsResult' = current.dir
                   /\ queue' = Tail(queue)
                   /\ UNCHANGED <<visited, enqueued>>
              ELSE IF ~canDescend(maxDepth, current.depth)
              THEN /\ queue' = Tail(queue)
                   /\ UNCHANGED <<searchPc, bfsResult, visited, enqueued>>
              ELSE LET after == enqueueChildren(listSubdirectoriesSorted(current.dir),
                                                current.depth, visited, Tail(queue))
                   IN  /\ queue' = after.queue
                       /\ visited' = after.visited
                       /\ enqueued' = enqueued \o after.pushed
                       /\ UNCHANGED <<searchPc, bfsResult>>
    /\ UNCHANGED <<searchRoot, maxDepth, dirents, symlinks, unreadable, projectRoots>>
    /\ UNCHANGED beyondSearch

\* Line 844: the queue is empty.
BfsNotFound ==
    /\ searchPc = "loop"
    /\ queue = <<>>
    /\ searchPc' = "done"
    /\ bfsResult' = NoPath
    /\ UNCHANGED <<searchRoot, maxDepth, dirents, symlinks, unreadable, projectRoots,
                   queue, visited, tested, enqueued>>
    /\ UNCHANGED beyondSearch

SearchNext ==
    \/ BfsStart
    \/ BfsVisit
    \/ BfsNotFound

SearchSpec == SearchInit /\ [][SearchNext]_vars

\* A search without depth limit in a tree where a link leads back to the
\* search root.
CycleSearchInit ==
    /\ SearchInit
    /\ searchRoot = <<"work">>
    /\ maxDepth = -1
    /\ symlinks # {}

\* The search is owed its steps.
CycleSearchSpec == CycleSearchInit /\ [][SearchNext]_vars /\ WF_vars(SearchNext)

\* The vocabulary of the search properties.
Depth(dir) == Len(dir) - Len(searchRoot)
Prefix(dir, n) == SubSeq(dir, 1, n)
DenyListed(name) == toLocaleLowerCase(name) \in EXCLUDED_DIR_NAMES
\* The directories the search is entitled to: the root, and every directory
\* within the depth limit that is reached through readable directories, with
\* no link and no deny-listed name on the way down from the root.
Reachable(dir) ==
    \/ dir = searchRoot
    \/ /\ dir \in dirents
       /\ \A i \in (Len(searchRoot) + 1)..Len(dir) :
             ~DenyListed(dir[i]) /\ Prefix(dir, i) \notin symlinks
       /\ \A i \in Len(searchRoot)..(Len(dir) - 1) : Prefix(dir, i) \notin unreadable
       /\ maxDepth = -1 \/ Depth(dir) <= maxDepth
Candidates == { d \in dirents \cup {searchRoot} : Reachable(d) /\ isUnityProjectRoot(d) }
\* d comes before e in breadth-first order with name-sorted siblings.
Before(d, e) ==
    \/ Depth(d) < Depth(e)
    \/ /\ Depth(d) = Depth(e)
       /\ \E i \in 1..Len(d) :
             /\ Prefix(d, i - 1) = Prefix(e, i - 1)
             /\ localeCompare(d[i], e[i]) < 0
Nearest == CHOOSE d \in Candidates : \A e \in Candidates \ {d} : Before(d, e)
SearchOver == searchPc = "done"
TestedDirs == { tested[i].dir : i \in 1..Len(tested) }

\* C21: findUnityProjectBfs returns the valid project root that is first in
\* breadth-first, name-sorted order among the reachable, non-pruned
\* directories (least depth, then earliest name), and NotFound only when
\* there is none.
C21_ReturnsNearestProject ==
    SearchOver => bfsResult = (IF Candidates = {} THEN NoPath ELSE Nearest)

\* C22 as stated: the directory returned is not, and does not lie inside, a
\* directory with a deny-listed name, whatever the search root.
C22_NeverInsideDenyListedDirectory ==
    SearchOver /\ bfsResult # NoPath =>
        \A i \in 1..Len(bfsResult) : ~DenyListed(bfsResult[i])

\* C22: no name on the way from the search root down to the directory
\* returned is on the deny-list, compared case-insensitively; the search
\* root itself is tested whatever its name.
C22_NoDenyListedNameBelowRoot ==
    /\ SearchOver /\ bfsResult # NoPath =>
          \A i \in (Len(searchRoot) + 1)..Len(bfsResult) : ~DenyListed(bfsResult[i])
    /\ \A k \in 1..Len(tested) :
          \A i \in (Len(searchRoot) + 1)..Len(tested[k].dir) : ~DenyListed(tested[k].dir[i])

\* A project under "Library" was nearer than, or as near as, the one returned.
C22_Witness ==
    /\ SearchOver /\ bfsResult # NoPath
    /\ \E d \in projectRoots :
          /\ DenyListed(d[Len(d)]) /\ d # searchRoot
          /\ Depth(d) <= Depth(bfsResult)

\* C23: with a non-negative limit no directory deeper than the limit is
\* pushed, tested or returned, and the root (depth 0) is tested whatever the
\* limit; with -1 the children of every directory tested are considered.
C23_DepthLimitRespected ==
    /\ \A i \in 1..Len(enqueued) : enqueued[i].depth = Depth(enqueued[i].dir)
    /\ maxDepth >= 0 =>
          /\ \A i \in 1..Len(enqueued) : enqueued[i].depth <= maxDepth
          /\ \A i \in 1..Len(tested) : tested[i].depth <= maxDepth
          /\ bfsResult # NoPath => Depth(bfsResult) <= maxDepth
    /\ tested # <<>> => tested[1] = [dir |-> searchRoot, depth |-> 0]
    /\ SearchOver => tested # <<>>
    /\ maxDepth = -1 =>
          \A i \in 1..Len(tested) :
              ~isUnityProjectRoot(tested[i].dir) =>
                  LET children == listSubdirectoriesSorted(tested[i].dir)
                  IN  \A c \in 1..Len(children) : comparableKey(children[c]) \in visited

\* A project two levels down is not found with --max-depth 1, though its
\* parent was tested.
C23_Witness ==
    /\ SearchOver /\ maxDepth = 1 /\ bfsResult = NoPath
    /\ \E d \in projectRoots :
          /\ Depth(d) = 2
          /\ Prefix(d, Len(d) - 1) \in TestedDirs

\* C24: no two entries pushed on the queue have the same key (the
\* case-folded real path), and the search comes to an end with a project or
\* with NotFound, also without depth limit in a tree with a link cycle.
C24_NoDirectoryTwiceAndTerminates ==
    /\ [](\A i, j \in 1..Len(enqueued) :
            i # j => comparableKey(enqueued[i].dir) # comparableKey(enqueued[j].dir))
    /\ <>SearchOver

\* The search ended without a project after it listed the directory that
\* holds the link, and two of its directories have the same key.
C24_Witness ==
    /\ SearchOver /\ maxDepth = -1 /\ bfsResult = NoPath
    /\ \E l \in symlinks : Prefix(l, Len(l) - 1) \in TestedDirs
    /\ \E d, e \in dirents \ symlinks : d # e /\ comparableKey(d) = comparableKey(e)

\* --------------------------------------------------------- PathCanonicalizer
\* The spellings handed to the path functions: every string of one to
\* MaxPathLen characters over a letter in both cases and the two separators.
PathChars == {"p", "P", Sep, BackSep}
Spellings == UNION { [1..n -> PathChars] : n \in 1..MaxPathLen }

\* canonicalize = toComparablePath after normalizePath.
canonicalize(path) == toComparablePath(normalizePath(path))

\* Two spellings are compared, and the first is canonicalized twice, on
\* any platform.
PathInit ==
    /\ \E pf \in Platforms : NoPassOn(pf)
    /\ NoSearch
    /\ NoListing
    /\ NoQuitCommand
    /\ NoPromptCommand
    /\ NoHubRegistry
    /\ pathLeft \in Spellings
    /\ pathRight \in Spellings
    /\ pathPc = "start"
    /\ equalLR = FALSE
    /\ equalRL = FALSE
    /\ equalLL = FALSE
    /\ canonOnce = NoPath
    /\ canonTwice = NoPath

ComparePaths ==
    /\ pathPc = "start"
    /\ pathPc' = "done"
    /\ equalLR' = pathsEqual(pathLeft, pathRight)
    /\ equalRL' = pathsEqual(pathRight, pathLeft)
    /\ equalLL' = pathsEqual(pathLeft, pathLeft)
    /\ canonOnce' = canonicalize(pathLeft)
    /\ canonTwice' = canonicalize(canonicalize(pathLeft))
    /\ UNCHANGED <<pathLeft, pathRight>>
    /\ UNCHANGED beyondPaths

PathNext == ComparePaths

PathSpec == PathInit /\ [][PathNext]_vars

\* The vocabulary of the path properties: what a spelling denotes for the
\* operating system. On Windows "/" and "\" both separate; elsewhere only
\* "/" does, and "\" is a character of a name.
Separators(pf) == IF pf = "win32" THEN {Sep, BackSep} ELSE {Sep}
\* The names on the path, in lower case, without the empty ones that
\* repeated and trailing separators leave.
RECURSIVE Segments(_, _, _)
Segments(pf, path, name) ==
    IF path = <<>> THEN (IF name = <<>> THEN <<>> ELSE <<name>>)
    ELSE IF Head(path) \in Separators(pf)
    THEN (IF name = <<>> THEN <<>> ELSE <<name>>) \o Segments(pf, Tail(path), <<>>)
    ELSE Segments(pf, Tail(path), Append(name, toLowerChar(Head(path))))
Absolute(pf, path) == path[1] \in Separators(pf)
\* The two spellings denote the same directory and differ at most in letter
\* case, in trailing or repeated separators and in the separator used.
SameDirectory(pf, a, b) ==
    /\ Absolute(pf, a) = Absolute(pf, b)
    /\ Segments(pf, a, <<>>) = Segments(pf, b, <<>>)
Compared == pathPc = "done"
\* The spelling denotes the root directory.
IsRoot(pf, path) == Absolute(pf, path) /\ Segments(pf, path, <<>>) = <<>>

\* C25: pathsEqual holds of two spellings of the same directory that differ
\* in letter case, trailing separators or separator style, and it is
\* reflexive, symmetric and transitive.
C25_EquivalentSpellingsAreEqual ==
    Compared =>
        /\ SameDirectory(platform, pathLeft, pathRight) => equalLR
        /\ equalLL
        /\ equalLR = equalRL
        /\ \A third \in Spellings :
              equalLR /\ pathsEqual(pathRight, third) => pathsEqual(pathLeft, third)

\* On Windows "\P\" and "/p" are found equal.
C25_Witness ==
    /\ Compared /\ platform = "win32"
    /\ pathLeft = <<BackSep, "P", BackSep>> /\ pathRight = <<Sep, "p">>
    /\ equalLR

\* The canonical spelling of a root: "/", or a drive and "/".
RootSpelling(c) == c = <<Sep>> \/ (Len(c) = 2 /\ isDrive(c[1]) /\ c[2] = Sep)

\* C26: canonicalizing a canonical path changes nothing; a canonical path
\* ends in a separator only when it is a root, and a root keeps its
\* separator.
C26_CanonicalizeIdempotent ==
    Compared =>
        /\ canonTwice = canonOnce
        /\ canonOnce[Len(canonOnce)] = Sep => RootSpelling(canonOnce)
        /\ IsRoot(platform, pathLeft) => RootSpelling(canonOnce)

\* ------------------------------------------- ProcessRegistry on its own
\* The command lines the process list can show: interactive editors of two
\* projects, batch-mode editors and an import worker of the project (the
\* markers spelled in several cases), an editor without -projectPath, and
\* another program that was given a -projectPath.
WorkerOf(pf, path, marker) ==
    [exe |-> EditorExecutable(pf), projectPath |-> path, args |-> <<marker>>]
AuxiliaryMarkers == {"-batchmode", "-batchMode", "AssetImportWorker"}
ListedCommands(pf) ==
    { InteractiveEditor(pf, SpellingOfP), InteractiveEditor(pf, ProjectQ),
      InteractiveEditor(pf, NoPath),
      [exe |-> "/usr/bin/node", projectPath |-> SpellingOfP, args |-> <<>>] }
    \cup { WorkerOf(pf, SpellingOfP, marker) : marker \in AuxiliaryMarkers }

\* listUnityProcesses is called with any processes running, on any platform.
RegistryInit ==
    /\ \E pf \in Platforms :
          \E running \in [Pids -> ListedCommands(pf) \cup {NoProcess}] :
              NoPassAmong(pf, running)
    /\ NoSearch
    /\ NoComparison
    /\ NoQuitCommand
    /\ NoPromptCommand
    /\ NoHubRegistry
    /\ listPc = "start"
    /\ listQueryOk = FALSE
    /\ listed = <<>>

\* listUnityProcesses: the query lists the running processes in some order,
\* or fails.
ListProcesses ==
    /\ listPc = "start"
    /\ \E order \in Orders({p \in Pids : Alive(p)}), queryOk \in BOOLEAN :
          /\ listed' = listUnityProcesses(platform, order, queryOk)
          /\ listQueryOk' = queryOk
    /\ listPc' = "done"
    /\ UNCHANGED beyondRegistry

RegistryNext == ListProcesses

RegistrySpec == RegistryInit /\ [][RegistryNext]_vars

\* The vocabulary of the listing properties.
Listing == listPc = "done"
ListedPids == { listed[i].pid : i \in 1..Len(listed) }
HasMarker(command) == \E i \in 1..Len(command.args) : command.args[i] \in AuxiliaryMarkers
\* The process is an interactive editor with a -projectPath, as the query
\* of the platform shows it.
UserFacingEditor(p) ==
    /\ platform \in {"darwin", "win32"}
    /\ procs[p].exe = EditorExecutable(platform)
    /\ procs[p].projectPath # NoPath
    /\ ~HasMarker(procs[p])

\* C27: the list never holds a process whose command line carries
\* "-batchmode" or "AssetImportWorker" in any case, nor one without a
\* -projectPath; such processes are passed over, and the user-facing
\* editors listed by a successful query are all returned.
C27_AuxiliaryProcessesNeverListed ==
    Listing =>
        /\ \A p \in ListedPids : ~HasMarker(procs[p]) /\ procs[p].projectPath # NoPath
        /\ \A i, j \in 1..Len(listed) : i # j => listed[i].pid # listed[j].pid
        /\ listQueryOk => \A p \in Pids : UserFacingEditor(p) => p \in ListedPids

\* A batch-mode editor of the project (spelled "-batchMode") and an
\* interactive one run side by side: only the second is listed.
C27_Witness ==
    /\ Listing /\ listQueryOk /\ platform = "darwin"
    /\ procs[1] = WorkerOf("darwin", SpellingOfP, "-batchMode")
    /\ procs[2] = InteractiveEditor("darwin", SpellingOfP)
    /\ ListedPids = {2}

\* ----------------------------------------------------- quit-unity (CLI)
\* The timeouts given with --timeout; 15000 is the default.
QuitTimeouts == {0, 5000, 15000}
stepIntervalMs == 200
QUIT_AFTER_FORCE_MS == 2000

\* process.kill(pid, signal) on a process of the user: it throws when there
\* is no such process.
killThrows(target) == target = "gone"
\* isProcessAlive of quit-unity: process.kill(pid, 0) did not throw.
quitIsProcessAlive(target) == ~killThrows(target)

\* One turn of waitForExit: the clock test, the liveness poll, the sleep,
\* and after the loop one more liveness poll.
waitForExit(alive, sofar, timeoutMs) ==
    IF sofar < timeoutMs
    THEN IF ~alive THEN [returned |-> TRUE, value |-> TRUE, elapsed |-> sofar]
         ELSE [returned |-> FALSE, value |-> FALSE,
               elapsed |-> sofar + SleepMs(stepIntervalMs)]
    ELSE [returned |-> TRUE, value |-> ~alive, elapsed |-> sofar]

\* quitByPid after its SIGTERM (the try and its catch): it waits, or
\* returns true or false at once.
afterSigterm(thrown, alive, force) ==
    IF ~thrown THEN "wait"
    ELSE IF ~alive THEN "true"
    ELSE IF ~force THEN "false"
    ELSE "wait"

\* A quitByPid that escalates whether or not --force was given.
afterGraceful_alwaysEscalates(graceful, force) ==
    IF graceful THEN "true" ELSE "sigkill"

\* quitByPid after the graceful wait.
afterGraceful(graceful, force) ==
    IF graceful THEN "true"
    ELSE IF ~force THEN "false"
    ELSE "sigkill"

\* A main that does not look at what quitByPid returned.
QuitReturn_ignoresFailure(ok) == "exited"

\* Where main goes when quitByPid returns `ok`.
QuitReturn(ok) == IF ok = "true" THEN "exited" ELSE "failed"

\* quit-unity is started with any flags on a project whose editor runs or
\* has gone.
QuitInit ==
    /\ NoPass
    /\ NoSearch
    /\ NoComparison
    /\ NoListing
    /\ NoPromptCommand
    /\ NoHubRegistry
    /\ quitForce \in BOOLEAN
    /\ quitTimeoutMs \in QuitTimeouts
    /\ quitTarget \in {"alive", "gone"}
    /\ quitPc = "start"
    /\ quitElapsed = 0
    /\ quitCalls = <<>>
    /\ exitCode = -1
    /\ gracefulWaited = -1
    /\ targetAtTimeout = ""

\* main up to quitByPid: the project directory and the pid in
\* Library/EditorInstance.json.
QuitBegin ==
    /\ quitPc = "start"
    /\ \E dirExists \in BOOLEAN, pidFound \in BOOLEAN :
          IF dirExists /\ pidFound
          THEN quitPc' = "sigterm" /\ UNCHANGED exitCode
          ELSE quitPc' = "done" /\ exitCode' = 1
    /\ UNCHANGED <<quitForce, quitTimeoutMs, quitTarget, quitElapsed, quitCalls,
                   gracefulWaited, targetAtTimeout>>
    /\ UNCHANGED beyondQuit

\* quitByPid: SIGTERM and what follows it at once.
QuitSigterm ==
    /\ quitPc = "sigterm"
    /\ LET thrown == killThrows(quitTarget)
           next == afterSigterm(thrown, quitIsProcessAlive(quitTarget), quitForce)
       IN  /\ quitCalls' = IF thrown THEN quitCalls ELSE Append(quitCalls, "SIGTERM")
           /\ quitPc' = IF next = "wait" THEN "graceful" ELSE QuitReturn(next)
    /\ quitElapsed' = 0
    /\ UNCHANGED <<quitForce, quitTimeoutMs, quitTarget, exitCode, gracefulWaited,
                   targetAtTimeout>>
    /\ UNCHANGED beyondQuit

\* One turn of the graceful waitForExit, and what quitByPid does when it
\* returns.
QuitGracefulPoll ==
    /\ quitPc = "graceful"
    /\ LET step == waitForExit(quitIsProcessAlive(quitTarget), quitElapsed, quitTimeoutMs)
           next == afterGraceful(step.value, quitForce)
       IN  IF ~step.returned
           THEN /\ quitElapsed' = step.elapsed
                /\ UNCHANGED <<quitPc, gracefulWaited, targetAtTimeout>>
           ELSE /\ gracefulWaited' = step.elapsed
                /\ targetAtTimeout' = quitTarget
                /\ quitPc' = IF next = "sigkill" THEN "sigkill" ELSE QuitReturn(next)
                /\ UNCHANGED quitElapsed
    /\ UNCHANGED <<quitForce, quitTimeoutMs, quitTarget, quitCalls, exitCode>>
    /\ UNCHANGED beyondQuit

\* quitByPid: SIGKILL, whose failure is ignored.
QuitSigkill ==
    /\ quitPc = "sigkill"
    /\ quitCalls' = IF killThrows(quitTarget) THEN quitCalls ELSE Append(quitCalls, "SIGKILL")
    /\ quitPc' = "afterForce"
    /\ quitElapsed' = 0
    /\ UNCHANGED <<quitForce, quitTimeoutMs, quitTarget, exitCode, gracefulWaited,
                   targetAtTimeout>>
    /\ UNCHANGED beyondQuit

\* One turn of the short waitForExit after SIGKILL.
QuitForcePoll ==
    /\ quitPc = "afterForce"
    /\ LET step == waitForExit(quitIsProcessAlive(quitTarget), quitElapsed,
                               QUIT_AFTER_FORCE_MS)
       IN  IF ~step.returned
           THEN quitElapsed' = step.elapsed /\ UNCHANGED quitPc
           ELSE /\ quitPc' = QuitReturn(IF step.value THEN "true" ELSE "false")
                /\ UNCHANGED quitElapsed
    /\ UNCHANGED <<quitForce, quitTimeoutMs, quitTarget, quitCalls, exitCode,
                   gracefulWaited, targetAtTimeout>>
    /\ UNCHANGED beyondQuit

\* main after quitByPid: exit 1, or the Temp directory is removed and the
\* command ends.
QuitEnd ==
    /\ quitPc \in {"exited", "failed"}
    /\ quitPc' = "done"
    /\ IF quitPc = "failed"
       THEN exitCode' = 1 /\ UNCHANGED quitCalls
       ELSE exitCode' = 0 /\ quitCalls' = Append(quitCalls, "removeTempDirectory")
    /\ UNCHANGED <<quitForce, quitTimeoutMs, quitTarget, quitElapsed, gracefulWaited,
                   targetAtTimeout>>
    /\ UNCHANGED beyondQuit

\* The editor exits, on a signal or on its own, while the command runs.
QuitTargetExits ==
    /\ quitPc \notin {"start", "done"}
    /\ quitTarget = "alive"
    /\ quitTarget' = "gone"
    /\ UNCHANGED <<quitForce, quitTimeoutMs, quitPc, quitElapsed, quitCalls, exitCode,
                   gracefulWaited, targetAtTimeout>>
    /\ UNCHANGED beyondQuit

QuitNext ==
    \/ QuitBegin
    \/ QuitSigterm
    \/ QuitGracefulPoll
    \/ QuitSigkill
    \/ QuitForcePoll
    \/ QuitEnd
    \/ QuitTargetExits

QuitSpec == QuitInit /\ [][QuitNext]_vars

\* The vocabulary of the quit-unity properties.
QuitSent(signal) == \E i \in 1..Len(quitCalls) : quitCalls[i] = signal
QuitOver == quitPc = "done"

PromptAnswers == {"y", "Y", "n", "yes", "", " y ", "y "}

\* String.prototype.trim on those answers.
trim(answer) ==
    CASE answer = " y " -> "y"
      [] answer = "y " -> "y"
      [] OTHER -> answer

\* promptYesNoSingleKey: the data of the first key event.
confirmedByKey(char) == char = "y"

\* An rl.question callback that takes the answer in either case.
confirmedByLine_anyCase(answer) == trim(answer) \in {"y", "Y"}

\* The callback of rl.question in handleUnityLockfilePrompt.
confirmedByLine(answer) == trim(answer) = "y"

\* launch-unity is started on a project with or without a lockfile, with a
\* raw terminal, another console, or none.
PromptInit ==
    /\ \E pf \in Platforms : NoPassOn(pf)
    /\ NoSearch
    /\ NoComparison
    /\ NoListing
    /\ NoQuitCommand
    /\ NoHubRegistry
    /\ promptConsole \in {"rawTty", "lineConsole", "none"}
    /\ promptLock \in BOOLEAN
    /\ promptPc = "start"
    /\ promptAnswer = ""
    /\ promptCalls = <<>>
    /\ promptExit = -1

\* main up to the prompt: ensureProjectPath and checkUnityRunning's test of
\* the lockfile; handleUnityLockfilePrompt finds out how to ask.
PromptBegin ==
    /\ promptPc = "start"
    /\ \E dirExists \in BOOLEAN :
          IF ~dirExists
          THEN /\ promptPc' = "done" /\ promptExit' = 1
               /\ UNCHANGED promptCalls
          ELSE IF ~promptLock
          THEN /\ promptPc' = "launch"
               /\ UNCHANGED <<promptCalls, promptExit>>
          ELSE IF promptConsole = "none"
          THEN /\ promptPc' = "done" /\ promptExit' = 0
               /\ UNCHANGED promptCalls
          ELSE /\ promptPc' = "asked"
               /\ promptCalls' = Append(promptCalls, "question")
               /\ UNCHANGED promptExit
    /\ UNCHANGED <<promptConsole, promptLock, promptAnswer>>
    /\ UNCHANGED beyondPrompt

\* The user answers: the key handler or the rl.question callback runs, and
\* handleUnityLockfilePrompt aborts or deletes the lockfile (rmSync may
\* throw, which ends the command with code 1).
PromptAnswered ==
    /\ promptPc = "asked"
    /\ \E answer \in PromptAnswers, rmOk \in BOOLEAN :
          LET confirmed == IF promptConsole = "rawTty"
                           THEN confirmedByKey(answer)
                           ELSE confirmedByLine(answer)
          IN  /\ promptAnswer' = answer
              /\ IF ~confirmed
                 THEN /\ promptPc' = "done" /\ promptExit' = 0
                      /\ UNCHANGED <<promptCalls, promptLock>>
                 ELSE IF ~rmOk
                 THEN /\ promptPc' = "done" /\ promptExit' = 1
                      /\ promptCalls' = Append(promptCalls, "rmSync.failed")
                      /\ UNCHANGED promptLock
                 ELSE /\ promptPc' = "launch"
                      /\ promptCalls' = Append(promptCalls, "rmSync")
                      /\ promptLock' = FALSE
                      /\ UNCHANGED promptExit
    /\ UNCHANGED promptConsole
    /\ UNCHANGED beyondPrompt

\* launch(): the version manifest and the editor are there and the editor
\* is spawned, or the command ends with code 1.
PromptLaunch ==
    /\ promptPc = "launch"
    /\ \E versionRead \in BOOLEAN, installed \in BOOLEAN :
          IF versionRead /\ installed
          THEN /\ promptCalls' = Append(promptCalls, "spawn")
               /\ promptExit' = 0
          ELSE /\ promptExit' = 1
               /\ UNCHANGED promptCalls
    /\ promptPc' = "done"
    /\ UNCHANGED <<promptConsole, promptLock, promptAnswer>>
    /\ UNCHANGED beyondPrompt

PromptNext ==
    \/ PromptBegin
    \/ PromptAnswered
    \/ PromptLaunch

PromptSpec == PromptInit /\ [][PromptNext]_vars

\* The vocabulary of the prompt properties.
PromptDid(call) == \E i \in 1..Len(promptCalls) : promptCalls[i] = call
PromptIndex(call) == CHOOSE i \in 1..Len(promptCalls) : promptCalls[i] = call
PromptOver == promptPc = "done"
\* The command met a lockfile: it asked, or had nobody to ask.
MetLockfile ==
    \/ PromptDid("question")
    \/ PromptOver /\ promptLock /\ promptConsole = "none" /\ promptExit = 0

\* C29 as stated: with a lockfile in the way the lockfile is deleted and
\* Unity launched only if the user's answer is exactly "y".
C29_OnlyExactYContinues ==
    MetLockfile /\ (PromptDid("rmSync") \/ PromptDid("spawn")) => promptAnswer = "y"

\* C29: with a lockfile in the way the user is asked first; the lockfile is
\* deleted and Unity launched only if the answer is "y": the one key "y" on
\* a raw terminal, a line that is "y" once surrounding blanks are trimmed
\* otherwise. After any other answer, and without a console, the lockfile
\* stays and nothing is launched.
C29_OnlyYContinues ==
    /\ MetLockfile /\ (PromptDid("rmSync") \/ PromptDid("spawn")) =>
          /\ promptConsole # "none"
          /\ promptAnswer \in (IF promptConsole = "rawTty" THEN {"y"} ELSE {"y", " y ", "y "})
          /\ PromptDid("rmSync")
          /\ PromptIndex("question") < PromptIndex("rmSync")
          /\ PromptDid("spawn") => PromptIndex("rmSync") < PromptIndex("spawn")
    /\ MetLockfile /\ PromptOver /\ ~PromptDid("rmSync") =>
          promptLock /\ ~PromptDid("spawn")

\* The user typed "y" and Enter on a console without raw mode: the lockfile
\* was deleted and the editor started.
C29_Witness ==
    /\ PromptOver /\ promptConsole = "lineConsole" /\ promptAnswer = "y"
    /\ promptCalls = <<"question", "rmSync", "spawn">>
    /\ ~promptLock

\* ------------------------------------------------ the Unity Hub registry
\* The calls made on the registry in one run.
MaxHubCalls == 2

HubFileNames == <<"projects-v1.json", "projects.json">>

\* resolveUnityHubProjectFiles, with HOME and APPDATA set.
resolveUnityHubProjectFiles(pf) ==
    IF pf \in {"darwin", "win32"} THEN HubFileNames ELSE <<>>

\* A field that is null or missing in the JSON.
null == <<"null">>
\* JavaScript's value ?? fallback.
orElse(value, fallback) == IF value = null THEN fallback ELSE value

\* The project is the directory "P" of the working directory, on a volume
\* that does not distinguish letter case; this is its path on the disk.
RealProjectPath(pf) ==
    IF pf = "win32" THEN <<"C:", BackSep, "w", BackSep, "P">>
    ELSE <<Sep, "w", Sep, "P">>

\* The spellings of the project that a call can be given: relative ones, and
\* the absolute path in lower case.
ProjectSpellings(pf) ==
    {s \in Spellings : Len(s) <= 2 /\ s[1] \in {"p", "P"}
                       /\ \A i \in 2..Len(s) : s[i] \in Separators(pf)}
    \cup {IF pf = "win32" THEN <<"c:", BackSep, "w", BackSep, "p">>
          ELSE <<Sep, "w", Sep, "p">>}

\* realpathSync.native of a spelling of the project; ok is whether it
\* succeeds.
resolvePathWithActualCase(target, ok) ==
    IF ok THEN removeTrailingSeparators(RealProjectPath(platform))
    ELSE normalizePath(target)

\* The index of the last separator of the path, 0 if there is none.
LastSeparator(path) ==
    LET at == {i \in 1..Len(path) : path[i] \in Separators(platform)}
    IN  IF at = {} THEN 0 ELSE CHOOSE i \in at : \A j \in at : j <= i
basename(path) == SubSeq(path, LastSeparator(path) + 1, Len(path))
dirname(path) == SubSeq(path, 1, LastSeparator(path) - 1)

\* A lookup that takes the key of an entry for its path.
existingKeys_byKey(data, projectPath) ==
    {key \in DOMAIN data : key = projectPath}

\* The keys of the entries whose path is path-equal to the project path;
\* Object.keys(data).find takes the first of them.
existingKeys(data, projectPath) ==
    {key \in DOMAIN data : pathsEqual(data[key].path, projectPath)}

\* An upsert whose favorite flag is just what the call asks for.
updatedData_favoriteAsRequested(data, projectPath, canonicalProjectPath, version, when, setFavorite) ==
    LET found == existingKeys(data, projectPath)
        existingKey == IF found = {} THEN null ELSE CHOOSE key \in found : TRUE
        targetKey == orElse(existingKey, canonicalProjectPath)
        updatedEntry ==
            IF existingKey = null
            THEN [path |-> canonicalProjectPath,
                  containingFolderPath |-> dirname(canonicalProjectPath),
                  version |-> version,
                  title |-> basename(canonicalProjectPath),
                  lastModified |-> when,
                  isFavorite |-> IF setFavorite THEN "true" ELSE "false"]
            ELSE LET existingEntry == data[existingKey]
                 IN  [path |-> existingEntry.path,
                      containingFolderPath |->
                          orElse(existingEntry.containingFolderPath,
                                 dirname(canonicalProjectPath)),
                      version |-> orElse(existingEntry.version, version),
                      title |-> orElse(existingEntry.title,
                                       basename(canonicalProjectPath)),
                      lastModified |-> when,
                      isFavorite |-> IF setFavorite THEN "true" ELSE "false"]
    IN  [key \in DOMAIN data \cup {targetKey} |->
            IF key = targetKey THEN updatedEntry ELSE data[key]]

\* The data that ensureProjectEntryAndUpdate writes back.
updatedData(data, projectPath, canonicalProjectPath, version, when, setFavorite) ==
    LET found == existingKeys(data, projectPath)
        existingKey == IF found = {} THEN null ELSE CHOOSE key \in found : TRUE
        targetKey == orElse(existingKey, canonicalProjectPath)
        updatedEntry ==
            IF existingKey = null
            THEN [path |-> canonicalProjectPath,
                  containingFolderPath |-> dirname(canonicalProjectPath),
                  version |-> version,
                  title |-> basename(canonicalProjectPath),
                  lastModified |-> when,
                  isFavorite |-> IF setFavorite THEN "true" ELSE "false"]
            ELSE LET existingEntry == data[existingKey]
                 IN  [path |-> existingEntry.path,
                      containingFolderPath |->
                          orElse(existingEntry.containingFolderPath,
                                 dirname(canonicalProjectPath)),
                      version |-> orElse(existingEntry.version, version),
                      title |-> orElse(existingEntry.title,
                                       basename(canonicalProjectPath)),
                      lastModified |-> when,
                      isFavorite |-> IF setFavorite THEN "true"
                                     ELSE IF existingEntry.isFavorite = "null"
                                     THEN "false"
                                     ELSE existingEntry.isFavorite]
    IN  [key \in DOMAIN data \cup {targetKey} |->
            IF key = targetKey THEN updatedEntry ELSE data[key]]

\* The entries the Hub may have written for the project, and one of another
\* project.
HubEntries(pf) ==
    [path : {RealProjectPath(pf), RealProjectPath(pf) \o <<Sep>>},
     containingFolderPath : {null, dirname(RealProjectPath(pf))},
     version : {<<"2021">>},
     title : {null, <<"G", "a", "m", "e">>},
     lastModified : {0},
     isFavorite : {"null", "true"}]
OtherProjectPath(pf) ==
    IF pf = "win32" THEN <<"C:", BackSep, "w", BackSep, "o">>
    ELSE <<Sep, "w", Sep, "o">>
OtherEntry(pf) ==
    [path |-> OtherProjectPath(pf), containingFolderPath |-> null,
     version |-> <<"2021">>, title |-> <<"o">>, lastModified |-> 0,
     isFavorite |-> "true"]
\* The data of a registry file: no entry for the project or one, under its
\* path as key.
HubData(pf) ==
    LET others == {<<>>, [key \in {OtherProjectPath(pf)} |-> OtherEntry(pf)]}
    IN  others \cup
        {[key \in DOMAIN o \cup {e.path} |-> IF key = e.path THEN e ELSE o[key]] :
            o \in others, e \in HubEntries(pf)}

\* The registry as the Hub left it; a file that is missing, empty or not
\* JSON is not readable, and a JSON file may lack its "data" member.
HubInit ==
    /\ \E pf \in Platforms :
          /\ NoPassOn(pf)
          /\ \E first \in HubData(pf), firstOk \in BOOLEAN, firstHasData \in BOOLEAN,
                secondOk \in BOOLEAN :
                hubFiles = [f \in {"projects-v1.json", "projects.json"} |->
                              IF f = "projects-v1.json"
                              THEN (IF ~firstOk THEN NoHubFile
                                    ELSE IF ~firstHasData
                                    THEN [readable |-> TRUE, hasData |-> FALSE,
                                          data |-> <<>>]
                                    ELSE [readable |-> TRUE, hasData |-> TRUE,
                                          data |-> first])
                              ELSE [readable |-> secondOk, hasData |-> secondOk,
                                    data |-> <<>>]]
    /\ NoSearch
    /\ NoComparison
    /\ NoListing
    /\ NoQuitCommand
    /\ NoPromptCommand
    /\ hubClock = 0
    /\ hubBefore = hubFiles
    /\ hubCall = NoHubCall

\* The candidates the loop has read when it stops at `path`.
readUpTo(candidates, path) ==
    SubSeq(candidates, 1, CHOOSE i \in 1..Len(candidates) : candidates[i] = path)

\* One call of ensureProjectEntryAndUpdate: the first candidate file that
\* can be read and parsed is updated and written back; a failing write is
\* swallowed.
EnsureProjectEntryAndUpdate ==
    /\ hubClock < MaxHubCalls
    /\ \E projectPath \in ProjectSpellings(platform), version \in {<<"2022">>},
          setFavorite \in BOOLEAN, realpathOk \in BOOLEAN, writeOk \in BOOLEAN :
          LET canonicalProjectPath == resolvePathWithActualCase(projectPath, realpathOk)
              candidates == resolveUnityHubProjectFiles(platform)
              parsable == {i \in 1..Len(candidates) : hubFiles[candidates[i]].readable}
              when == hubClock + 1
          IN  IF parsable = {}
              THEN /\ hubCall' = [op |-> "ensure",
                                  projectPath |-> projectPath, version |-> version,
                                  setFavorite |-> setFavorite, file |-> "none",
                                  wrote |-> FALSE, canonical |-> canonicalProjectPath,
                                  read |-> candidates, written |-> <<>>]
                   /\ UNCHANGED hubFiles
              ELSE LET path == candidates[CHOOSE i \in parsable : \A j \in parsable : i <= j]
                       data == updatedData(hubFiles[path].data, projectPath,
                                           canonicalProjectPath, version, when,
                                           setFavorite)
                   IN  /\ hubCall' = [op |-> "ensure",
                                      projectPath |-> projectPath, version |-> version,
                                      setFavorite |-> setFavorite, file |-> path,
                                      wrote |-> writeOk,
                                      canonical |-> canonicalProjectPath,
                                      read |-> readUpTo(candidates, path),
                                      written |-> <<path>>]
                       /\ hubFiles' = IF writeOk
                                      THEN [hubFiles EXCEPT ![path].data = data,
                                                            ![path].hasData = TRUE]
                                      ELSE hubFiles
    /\ hubBefore' = hubFiles
    /\ hubClock' = hubClock + 1
    /\ UNCHANGED beyondHub

\* An update that also fills in a missing favorite flag, as the upsert does.
touchedData_fillsFavorite(data, projectKey, when) ==
    [data EXCEPT ![projectKey] =
        [data[projectKey] EXCEPT !.lastModified = when,
                                 !.isFavorite = IF @ = "null" THEN "false" ELSE @]]

\* The data updateLastModifiedIfExists writes back: the entry under
\* projectKey with the new lastModified.
touchedData(data, projectKey, when) ==
    [data EXCEPT ![projectKey] = [data[projectKey] EXCEPT !.lastModified = when]]

\* One call of updateLastModifiedIfExists: the first candidate file that can
\* be read and parsed decides; it is written back only if it has data with
\* an entry whose path is that of the project. A failing write is swallowed.
UpdateLastModifiedIfExists ==
    /\ hubClock < MaxHubCalls
    /\ \E projectPath \in ProjectSpellings(platform), writeOk \in BOOLEAN :
          LET candidates == resolveUnityHubProjectFiles(platform)
              parsable == {i \in 1..Len(candidates) : hubFiles[candidates[i]].readable}
              when == hubClock + 1
              call == [NoHubCall EXCEPT !.op = "update", !.projectPath = projectPath]
          IN  IF parsable = {}
              THEN /\ hubCall' = [call EXCEPT !.read = candidates]
                   /\ UNCHANGED hubFiles
              ELSE LET path == candidates[CHOOSE i \in parsable : \A j \in parsable : i <= j]
                       json == hubFiles[path]
                       found == existingKeys(json.data, projectPath)
                       seen == [call EXCEPT !.file = path,
                                            !.read = readUpTo(candidates, path)]
                   IN  IF ~json.hasData \/ found = {}
                       THEN /\ hubCall' = seen
                            /\ UNCHANGED hubFiles
                       ELSE LET projectKey == CHOOSE key \in found : TRUE
                            IN  /\ hubCall' = [seen EXCEPT !.wrote = writeOk,
                                                          !.written = <<path>>]
                                /\ hubFiles' =
                                      IF writeOk
                                      THEN [hubFiles EXCEPT ![path].data =
                                               touchedData(json.data, projectKey, when)]
                                      ELSE hubFiles
    /\ hubBefore' = hubFiles
    /\ hubClock' = hubClock + 1
    /\ UNCHANGED beyondHub

HubNext ==
    \/ EnsureProjectEntryAndUpdate
    \/ UpdateLastModifiedIfExists

HubSpec == HubInit /\ [][HubNext]_vars

\* The vocabulary of the registry properties.
\* The entries of the data whose path denotes the project.
EntriesFor(data) ==
    {key \in DOMAIN data :
        Segments(platform, data[key].path, <<>>) =
        Segments(platform, RealProjectPath(platform), <<>>)}
HubCalled == hubCall.file # "none"
Ensured == hubCall.op = "ensure"
Updated == hubCall.op = "update"
HubWrote == HubCalled /\ hubCall.wrote
DataBefore == hubBefore[hubCall.file].data
DataAfter == hubFiles[hubCall.file].data
HadEntry == EntriesFor(DataBefore) # {}
TheEntryBefore == DataBefore[CHOOSE key \in EntriesFor(DataBefore) : TRUE]
TheEntryAfter == DataAfter[CHOOSE key \in EntriesFor(DataBefore) : TRUE]
FavoriteAfter(before) ==
    IF hubCall.setFavorite THEN "true" ELSE IF before = "null" THEN "false" ELSE before
OthersUntouched ==
    \A key \in DOMAIN DataBefore \ EntriesFor(DataBefore) :
        key \in DOMAIN DataAfter /\ DataAfter[key] = DataBefore[key]

WaitingAfterEscalation == QuitPass /\ pc = "wait" /\ waitFor = "afterKill"

\* C31 as stated: in a quit pass the timeout of the wait that follows
\* SIGKILL is strictly shorter than the timeout of the graceful wait.
C31_ForcedWaitShorter ==
    WaitingAfterEscalation => TimeoutOf(waitFor) < TimeoutOf("graceful")

\* C31: in a quit pass the timeout of the wait that follows SIGKILL equals
\* the timeout of the graceful wait (10 s both): the second wait is never
\* longer than the first, and no shorter either; it has given up one sleep
\* after that time at the latest.
C31_ForcedWaitAsLongAsGraceful ==
    WaitingAfterEscalation =>
        /\ TimeoutOf(waitFor) = TimeoutOf("graceful")
        /\ elapsed < GRACEFUL_QUIT_TIMEOUT_MS + SleepMs(KILL_POLL_INTERVAL_MS)

\* The wait after SIGKILL has lasted as long as the graceful wait did, with
\* the editor still there.
C31_Witness ==
    /\ WaitingAfterEscalation
    /\ elapsed >= GRACEFUL_QUIT_TIMEOUT_MS
    /\ Alive(runningProcess.pid)

\* The step sent a signal or a close request to the editor that was found,
\* and the sending failed: process.kill threw, osascript / PowerShell failed.
SendFailed ==
    /\ Len(events') > Len(events)
    /\ events'[Len(events')] \in {"SIGKILL.failed", "gracefulQuit.failed"}

\* C32: when killProcess or sendGracefulQuit fails on an editor that is
\* alive, the termination request ends there with an error to the caller;
\* it does not go on to the wait as if the signal had been delivered.
C32_SendFailureEscalated ==
    [][SendFailed /\ Alive(runningProcess.pid) =>
          pc' = "done" /\ result'.action = "error"]_vars

\* The places of the listing whose bound path is that of the project.
MatchesInListing ==
    {i \in 1..Len(listedAtQuery) :
        pathsEqual(listedAtQuery[i].projectPath, normalizePath(resolvedProjectPath))}

\* The first element of the listing bound to the project, if there is one.
FirstMatch ==
    IF MatchesInListing = {} THEN undefined
    ELSE listedAtQuery[CHOOSE i \in MatchesInListing : \A j \in MatchesInListing : i <= j]

\* C33: the instance the pass works on is the first element of the listing,
\* in the order of the listing, whose bound path equals the project's; none
\* when no element matches. Signals, close requests and polls go to that pid
\* alone, so other instances bound to the same project are left alone.
C33_FirstMatchOnlyIsTargeted ==
    /\ pc \in {"focus", "forceKill", "gracefulQuit", "wait"} =>
          runningProcess # undefined /\ runningProcess = FirstMatch
    /\ runningProcess # undefined => runningProcess = FirstMatch
    /\ contacted \subseteq {FirstMatch.pid} \ {undefined.pid}
C33_Witness ==
    /\ Cardinality(MatchesInListing) = 2
    /\ pc = "done" /\ result.action \in {"quit", "killed-and-launched"}
    /\ contacted = {FirstMatch.pid}
    /\ \E p \in Pids \ contacted : Alive(p) /\ EditorOf(p, resolvedProjectPath)

\* ---------------------------------------- further claims on the registry
\* The file the last call stopped at had data with an entry for the project.
TouchFoundEntry ==
    HubCalled /\ hubBefore[hubCall.file].hasData /\ HadEntry

\* C34: a call of updateLastModifiedIfExists adds and removes no entry of any
\* file and changes nothing but the lastModified of the entry for the
\* project in the file it stopped at; without such an entry, or without
\* data, it writes nothing. A file is read only if every candidate before
\* it could not be read or parsed, and at most one file is written.
C34_TouchChangesOnlyTimestamp ==
    Updated =>
        /\ Len(hubCall.written) <= 1
        /\ hubCall.written # <<>> => hubCall.written = <<hubCall.file>>
        /\ \A i \in 2..Len(hubCall.read) : ~hubBefore[hubCall.read[i - 1]].readable
        /\ ~TouchFoundEntry => hubCall.written = <<>> /\ hubFiles = hubBefore
        /\ \A f \in DOMAIN hubFiles :
              /\ hubFiles[f].readable = hubBefore[f].readable
              /\ hubFiles[f].hasData = hubBefore[f].hasData
              /\ DOMAIN hubFiles[f].data = DOMAIN hubBefore[f].data
              /\ \A key \in DOMAIN hubBefore[f].data :
                    \/ hubFiles[f].data[key] = hubBefore[f].data[key]
                    \/ /\ f = hubCall.file
                       /\ key \in EntriesFor(hubBefore[f].data)
                       /\ hubFiles[f].data[key] =
                             [hubBefore[f].data[key] EXCEPT !.lastModified = hubClock]
\* The primary file cannot be read; the entry an earlier call added to the
\* fallback gets the new time.
C34_Witness ==
    /\ Updated /\ HubWrote /\ TouchFoundEntry
    /\ hubCall.read = HubFileNames
    /\ TheEntryBefore.lastModified # hubClock
    /\ TheEntryAfter.lastModified = hubClock
    /\ hubFiles # hubBefore

\* The fields of an entry beside the favorite flag, and those among them
\* that the calls are not there to set.
OtherFields == {"path", "containingFolderPath", "version", "title", "lastModified"}
KeptFields == OtherFields \ {"lastModified"}

ConflictingOptions == options.quit /\ options.restart

\* C36: a pass called with both quit and restart ends at once with the
\* error of the conflict, whatever the other options and whatever the state
\* of the project: no project is resolved, and no process query, signal,
\* lock check or cleanup, registry call or launch is made.
C36_ConflictFailsBeforeAnything ==
    ConflictingOptions /\ pc # "begin" =>
        /\ pc = "done"
        /\ result = Thrown("--quit and --restart cannot be used together.")
        /\ resolvedProjectPath = NoPath /\ unityVersion = ""
        /\ events = <<>>
        /\ contacted = {} /\ listedAtQuery = <<>>
        /\ starts = 0
\* The conflict is reported although registration is asked for too, the
\* manifest is missing and an editor has the project open.
C36_Witness ==
    /\ ConflictingOptions /\ pc = "done"
    /\ options.addUnityHub /\ options.favoriteUnityHub
    /\ ~manifest.exists
    /\ \E p \in Pids : EditorOf(p, ProjectP)
    /\ lockfileExists /\ tempExists
    /\ result.action = "error"

\* killRunningUnity / quitRunningUnity, having found an instance, returns
\* without throwing in this step.
TerminationReturns ==
    /\ pc = "wait" /\ runningProcess # undefined
    /\ pc' \notin {"wait", "forceKill"}
    /\ result'.action # "error"

\* C37: when killRunningUnity or quitRunningUnity found an instance and
\* returns without error, the process with the pid it signalled is gone.
C37_SuccessMeansExited ==
    [][TerminationReturns => ~Alive(runningProcess.pid)]_vars

\* The pass made the call that updates the registry timestamp.
HubTouched == Count("hubTouch") > 0

\* C38: updateLastModifiedIfExists is called at most once in a pass, and only
\* after launch() was called once and its spawn succeeded; a pass that ends
\* focused, quit or with an error of the lock check, of the termination or
\* of the launch has not called it.
C38_TimestampOnlyAfterLaunch ==
    /\ Count("hubTouch") <= 1
    /\ HubTouched =>
          /\ Count("launch") = 1 /\ Count("spawn") = 1 /\ Count("spawn.failed") = 0
          /\ FirstIndex("launch") < FirstIndex("spawn")
          /\ FirstIndex("spawn") < FirstIndex("hubTouch")
          /\ pc = "done" /\ result.action \in {"launched", "killed-and-launched"}
    /\ pc = "done" /\ result.action \in {"focused", "quit", "error", "hub-updated"} =>
          ~HubTouched
\* A restart that killed the editor and removed its lockfile launches, and
\* then updates the timestamp.
C38_Witness ==
    /\ HubTouched /\ RestartPass
    /\ result.action = "killed-and-launched"
    /\ Count("SIGKILL") = 1 /\ Count("rmLockfile") = 1

\* ------------------------------------------------- the restart on its own
\* A restart of a valid project on a platform whose processes can be listed,
\* among the user's own editors.
RestartInit ==
    /\ Init
    /\ options = [restart |-> TRUE, quit |-> FALSE,
                  addUnityHub |-> FALSE, favoriteUnityHub |-> FALSE]
    /\ manifest = Manifest("2022.3.5f1")
    /\ Supported(platform)

\* The steps of a restart: the event loop runs every continuation and fires
\* every timer.
RestartStep ==
    \/ Begin
    \/ FindRunning
    \/ KillProcess
    \/ Poll
    \/ LockExists
    \/ InspectLock
    \/ RemoveTemp
    \/ RemoveLockfile
    \/ Launch
    \/ Spawn
    \/ HubTouch

RestartNext ==
    \/ RestartStep
    \/ World

\* The pass is owed its steps; the editors owe nothing.
RestartSpec == RestartInit /\ [][RestartNext]_vars /\ WF_vars(RestartStep)

\* killRunningUnity found an instance and saw it die within KILL_TIMEOUT_MS.
KilledInTime == RestartPass /\ termOutcome = "ForceKilled"
\* No process but the instance that is being killed has the lockfile open.
NoOtherHolder ==
    IF termOutcome = "ForceKilled" THEN lockHolder = 0
    ELSE lockHolder \in {0, runningProcess.pid}
\* The lock check did not report the lockfile held; if the lockfile was
\* there, the removal of Temp and of the lockfile was issued, then launch()
\* was called, once.
CleanedThenLaunchedOnce ==
    /\ ~inspectedHeld /\ result # LockHeldError
    /\ Count("launch") = 1
    /\ Count("inspectLock") = 1 =>
          /\ Count("rmTemp") = 1 /\ Count("rmLockfile") = 1
          /\ FirstIndex("rmTemp") < FirstIndex("rmLockfile")
          /\ FirstIndex("rmLockfile") < FirstIndex("launch")
NotInstalled == result = Thrown("Unity not found") /\ Count("spawn") = 0
SpawnFailed == result = Thrown("Failed to launch Unity") /\ Count("spawn.failed") = 1

\* C39 as stated: with no other holder of the lockfile and the editor
\* installed, a restart that killed the running instance in time comes to
\* an end having cleaned up and called launch() once, with the result
\* killed-and-launched, and the lock check reported nothing held.
C39_KilledThenAlwaysLaunched ==
    []NoOtherHolder =>
        (KilledInTime ~>
            (pc = "done" /\ CleanedThenLaunchedOnce
               /\ (NotInstalled \/ result.action = "killed-and-launched")))

\* C39: the same, where the result is killed-and-launched provided the
\* editor process could be spawned, and the spawn error otherwise.
C39_KilledThenLaunchedIfSpawned ==
    []NoOtherHolder =>
        (KilledInTime ~>
            (pc = "done" /\ CleanedThenLaunchedOnce
               /\ \/ NotInstalled
                  \/ SpawnFailed
                  \/ /\ result.action = "killed-and-launched"
                     /\ Count("spawn") = 1 /\ Count("spawn.failed") = 0))
\* The killed editor left its Temp directory and lockfile; both were
\* removed and the editor was launched again.
C39_Witness ==
    /\ KilledInTime /\ pc = "done"
    /\ result.action = "killed-and-launched"
    /\ lockAtInspect = "stale"
    /\ Count("rmTemp") = 1 /\ Count("rmLockfile") = 1
    /\ ~lockfileExists /\ ~tempExists

====
